---- MODULE Spec2Model ----
(***************************************************************************)
(* Job lifecycle of the Wasm data vending machine: request handling        *)
(* (job_listener.rs), invoice settlement (invoice_subscriber.rs), the      *)
(* scheduler rounds (job_listener.rs) and the storage rows they share      *)
(* (models/).                                                              *)
(*                                                                         *)
(* Every handler is a task of the multi-threaded executor.  A task is cut  *)
(* into steps at the storage statements it issues outside a transaction:   *)
(* between two such statements any other task may run.  Publishing to the  *)
(* relays and running the Wasm guest touch no shared state, so they are    *)
(* folded into the neighbouring storage step.  Relay, Lightning node and   *)
(* storage calls are taken to succeed; failures decided by the input (the  *)
(* run-time limit, a run date in the past, an insufficient balance) are    *)
(* modelled.  run_date values are timestamps chrono can represent.         *)
(*                                                                         *)
(* The oracle (kormir::Oracle) is a library: create_enum_event and         *)
(* sign_enum_event are modelled by the PostgresStorage calls they make     *)
(* (models/mod.rs).  The Wasm runner (wasm_handler.rs) and the Storage     *)
(* calls of the oracle have specifications of their own, WasmSpec and      *)
(* OracleSpec, that apply them to inputs drawn from bounded sets.          *)
(***************************************************************************)
EXTENDS Integers, Sequences, FiniteSets, TLC

\* ---------------------------------------------------------------- bounds
MaxEvents      == 2   \* handle_event tasks spawned by listen_for_jobs
MaxSettlements == 2   \* Settled updates delivered by the invoice stream
MaxZaps        == 1   \* calls of get_invoice_impl
MaxRounds      == 2   \* scheduler rounds
MaxTime        == 2   \* clock ticks (seconds)
MaxInputs      == 5   \* all of the above together
MaxCalls       == 3   \* OracleSpec: calls of the Storage functions
MaxNum         == 2   \* OracleSpec: nonces asked for by one call
MaxOracleEvents == 1  \* OracleSpec: announcements saved
MaxNonceEvents == 2   \* NonceSpec: announcements saved
MaxOver        == 1   \* WasmSpec: bytes below and above the size limit
MaxBodies      == 2   \* WasmSpec: bodies of different content
MaxMillis      == 2   \* WasmSpec: params.time and the time waited, in ms
HexLen         == 2   \* WasmSpec: characters of a checksum
PoolSize       == 2   \* PoolSpec: connections of the r2d2 pool
MaxHandlers    == 3   \* PoolSpec: handlers spawned

\* ------------------------------------------------------ program constants
MAX_JOB_TIME == 600000       \* 60 * 10 * 1_000 ms
Price        == 1            \* Config::price, msats per millisecond
I32_MAX      == 2147483647
MAX_WASM_FILE_SIZE == 25000000  \* 25mb

\* --------------------------------------------------------------- Option<T>
None        == <<>>
Some(x)     == <<x>>
IsSome(o)   == o # <<>>
Unwrap(o)   == o[1]

\* ------------------------------------------------------------------ inputs
Npubs == {"alice"}

\* A u64 that may exceed 31 bits is kept as hi * 2^31 + lo.
U64(h, l) == [hi |-> h, lo |-> l]

\* amount=<msat> values of GET /get-invoice: 3 msat and 2^31 + 1 msat
ZapAmounts == {U64(0, 3), U64(1, 1)}

\* params.time values (ms)
Times     == {2, MAX_JOB_TIME + 1}

\* Strings a guest returns and a request declares as expected outputs
Outputs == {"x", "y"}

\* ScheduledParams: run_date (s) and expected_outputs
ScheduledParams == [run_date : {1}, expected_outputs : {None, Some({"x"})}]
Schedules == {None} \cup {Some(p) : p \in ScheduledParams}

\* The author, the JobParams and the Encrypted tag of a request.  The
\* requests over the time limit are represented by the plaintext one
\* without schedule, the encrypted requests by the scheduled one with
\* expected outputs.
RequestParams ==
    {r \in [pubkey : Npubs, time : Times, schedule : Schedules,
            encrypted : BOOLEAN] :
        /\ r.time > MAX_JOB_TIME => (r.schedule = None /\ ~r.encrypted)
        /\ r.encrypted => /\ IsSome(r.schedule)
                          /\ IsSome(Unwrap(r.schedule).expected_outputs)}

\* keys.public_key() of the service
ServiceKey == "service"

\* Tag::PublicKey { public_key, uppercase }
PTag(public_key, uppercase) == [public_key |-> public_key, uppercase |-> uppercase]

\* An i tag by its shape: the length of its vector and its third element
ITag(len, third) == [len |-> len, third |-> third]

\* The p tags and the i tags of a well-formed request
GoodPTags(encrypted) == IF encrypted THEN <<PTag(ServiceKey, FALSE)>> ELSE <<>>
GoodITags == <<ITag(2, "")>>

\* The p tags that make an encrypted request fail: none, an uppercase one
\* only, one for another key before the service's
BadPTags ==
    {<<>>,
     <<PTag(ServiceKey, TRUE)>>,
     <<PTag("other", FALSE), PTag(ServiceKey, FALSE)>>}

\* The i tags that make a request fail: none, or of a shape not accepted
BadITags == {<<>>, <<ITag(3, "url")>>, <<ITag(4, "text")>>}

\* A request event.  id tells the events apart: the k-th event the relay
\* pool notifies is another event than those before it.  The tags are those
\* get_job_params looks at (the i tags are those of the cleartext when the
\* request is encrypted); pubkey, time and schedule are what the first
\* accepted i tag and the event carry.
Requests ==
    {r @@ [id |-> k, p_tags |-> GoodPTags(r.encrypted), i_tags |-> GoodITags] :
        r \in RequestParams, k \in 1..MaxEvents}

\* Requests with other tags: one whose second i tag is the first accepted
\* one, and those that get_job_params refuses
OddRequests ==
    {r @@ [id |-> k, p_tags |-> <<>>, i_tags |-> <<ITag(3, "url"), ITag(3, "text")>>] :
        r \in {q \in RequestParams : q.time <= MAX_JOB_TIME /\ q.schedule = None},
        k \in 1..MaxEvents}
    \cup {r @@ [id |-> k, p_tags |-> p, i_tags |-> GoodITags] :
        r \in {q \in RequestParams : q.encrypted}, k \in 1..MaxEvents,
        p \in BadPTags}
    \cup {r @@ [id |-> k, p_tags |-> <<>>, i_tags |-> i] :
        r \in {q \in RequestParams : q.time <= MAX_JOB_TIME /\ q.schedule = None},
        k \in 1..MaxEvents, i \in BadITags}

\* params.schedule.map(|u| u.run_date)
run_date(schedule) ==
    IF IsSome(schedule) THEN Some(Unwrap(schedule).run_date) ELSE None

\* 32-byte values: a request's event id, an invoice's payment hash
RequestId(r)     == <<"req", r>>
InvoiceHash(i)   == <<"inv", i>>

\* ------------------------------------------------------------------- state
VARIABLES
    now,          \* wall clock, seconds
    invoices,     \* invoices of the Lightning node: Seq([value_msat, settled, for])
    jobs,         \* table jobs, row id = index
    zaps,         \* table zaps
    balances,     \* table zap_balances: npub -> Option<balance_msats>
    active,       \* active_jobs: HashSet<i32>
    published,    \* events sent to the relays
    wasmRuns,     \* calls of download_and_run_wasm
    ledger,       \* npub -> sum of the deltas of the update_balance calls that succeeded
    zapCredits,   \* payment hash -> number of balance credits made for that zap
    evTasks,      \* handle_event tasks
    invTasks,     \* handle_invoice tasks
    rounds,       \* process_schedule_jobs_round tasks
    schedTasks,   \* run_scheduled_job tasks
    events,       \* table events (oracle events), row id = index
    event_nonces, \* table event_nonces
    event_jobs,   \* table event_jobs
    current_index,\* PostgresStorage::current_index: AtomicU32
    calls,        \* OracleSpec: the callers of the Storage functions
    runner        \* WasmSpec: one call of download_and_run_wasm

jobVars == <<now, invoices, jobs, zaps, balances, active, published, wasmRuns,
             ledger, zapCredits, evTasks, invTasks, rounds, schedTasks>>

oracleVars == <<events, event_nonces, event_jobs, current_index>>

vars == <<now, invoices, jobs, zaps, balances, active, published, wasmRuns,
          ledger, zapCredits, evTasks, invTasks, rounds, schedTasks,
          events, event_nonces, event_jobs, current_index, calls, runner>>

\* A task slot: idle until its handler is spawned; a handler that returned
\* Ok is "done", one that returned Err is "failed" and keeps the message.
Idle == [pc |-> "idle"]

Init ==
    /\ now = 0
    /\ invoices = <<>>
    /\ jobs = <<>>
    /\ zaps = {}
    /\ balances = [n \in Npubs |-> None]
    /\ active = {}
    /\ published = {}
    /\ wasmRuns = {}
    /\ ledger = [n \in Npubs |-> 0]
    /\ zapCredits = [h \in {} |-> 0]
    /\ evTasks = [t \in 1..MaxEvents |-> Idle]
    /\ invTasks = [t \in 1..MaxSettlements |-> Idle]
    /\ rounds = [k \in 1..MaxRounds |-> Idle]
    /\ schedTasks = {}
    /\ events = <<>>
    /\ event_nonces = {}
    /\ event_jobs = {}
    /\ current_index = 0
    /\ calls = <<>>
    /\ runner = Idle

\* ------------------------------------------------------ integer conversions
\* u64 as i32: keep the low 32 bits, two's complement
AsI32(u) == IF u.hi % 2 = 0 THEN u.lo ELSE u.lo - I32_MAX - 1

\* i32::saturating_add
saturating_add(a, b) ==
    IF a >= 0 /\ b >= 0
    THEN (IF a > I32_MAX - b THEN I32_MAX ELSE a + b)
    ELSE IF a < 0 /\ b < 0
    THEN (IF a < (-I32_MAX - 1) - b THEN -I32_MAX - 1 ELSE a + b)
    ELSE a + b

\* (balance_msats as u64) >= value_msat, for value_msat < 2^31
BalanceCovers(balance_msats, value_msat) ==
    balance_msats < 0 \/ balance_msats >= value_msat

\* value_msat = (params.time as f64 * price) as u64
value_msat(params) == params.time * Price

\* Mutant of TimeTooLong: the limit taken a thousand times too large
TimeTooLong_wrong_unit(params) == params.time > MAX_JOB_TIME * 1000

\* params.time > 60 * 10 * 1_000
TimeTooLong(params) == params.time > MAX_JOB_TIME

\* ------------------------------------------------------------------ events
\* An event sent to the relays.  n numbers the sends of one kind for one
\* reference, so every send is a separate element.
Sends(kind, ref) == {e \in published : e.kind = kind /\ e.ref = ref}

NewEvent(kind, ref, amount, bolt11, content) ==
    [kind |-> kind, ref |-> ref, amount |-> amount, bolt11 |-> bolt11,
     content |-> content, n |-> Cardinality(Sends(kind, ref)) + 1]

\* A call of download_and_run_wasm for request r; job is the jobs row the
\* caller holds (0: none), by the handler that called.
Runs(r) == {w \in wasmRuns : w.request = r}

NewRun(r, job, by) ==
    [request |-> r, job |-> job, by |-> by, n |-> Cardinality(Runs(r)) + 1]


ToU64(x) == U64(0, x)

\* ----------------------------------------------------------------- storage
\* Mutant of update_balance: the check of the sign left out
update_balance_unchecked(self_balance, amount_msats) ==
    Some(saturating_add(self_balance, amount_msats))

\* ZapBalance::update_balance on the row read as self_balance: Some(new
\* balance) to store, None when it bails with "Insufficient balance"
update_balance(self_balance, amount_msats) ==
    LET new_balance == saturating_add(self_balance, amount_msats)
    IN  IF new_balance < 0 THEN None ELSE Some(new_balance)

\* Mutant of Job_create: scheduled_at not stored
Job_create_no_schedule(payment_hash, request, scheduled_at) ==
    [payment_hash |-> payment_hash, request |-> request,
     response_id |-> None, scheduled_at |-> None]

\* Job::create
Job_create(payment_hash, request, scheduled_at) ==
    [payment_hash |-> payment_hash, request |-> request,
     response_id |-> None, scheduled_at |-> scheduled_at]

\* Job::create_scheduled
Job_create_scheduled(request, scheduled_at) ==
    [payment_hash |-> RequestId(request), request |-> request,
     response_id |-> None, scheduled_at |-> Some(scheduled_at)]

\* Job::create_completed
Job_create_completed(request, response_id) ==
    [payment_hash |-> RequestId(request), request |-> request,
     response_id |-> Some(response_id), scheduled_at |-> None]

\* Mutant of jobs_payment_hash_key: no such constraint
jobs_payment_hash_key_absent(new_job) == TRUE

\* The unique key on jobs.payment_hash: a row can be inserted when no row
\* has its payment_hash
jobs_payment_hash_key(new_job) ==
    \A j \in DOMAIN jobs : jobs[j].payment_hash # new_job.payment_hash

\* Job::get_by_payment_hash: Option<job id>
Job_get_by_payment_hash(payment_hash) ==
    LET found == {j \in DOMAIN jobs : jobs[j].payment_hash = payment_hash}
    IN  IF found = {} THEN None
        ELSE Some(CHOOSE j \in found : \A q \in found : j <= q)

\* Mutant of Job_set_response_id: the update matches no row
Job_set_response_id_no_row(id, response_id) == jobs

\* Job::set_response_id: the table after the update
Job_set_response_id(id, response_id) ==
    [jobs EXCEPT ![id].response_id = Some(response_id)]

\* Job::get_ready_to_run_jobs
Job_get_ready_to_run_jobs ==
    {j \in DOMAIN jobs :
        /\ jobs[j].response_id = None
        /\ IsSome(jobs[j].scheduled_at)
        /\ Unwrap(jobs[j].scheduled_at) < now}

\* Zap::find_by_payment_hash: Option<Zap>
Zap_find_by_payment_hash(payment_hash) ==
    LET found == {z \in zaps : z.payment_hash = payment_hash}
    IN  IF found = {} THEN None ELSE Some(CHOOSE z \in found : TRUE)

\* EventJob::get_by_job_id: Option<EventJob>
EventJob_get_by_job_id(job_id) ==
    LET found == {ej \in event_jobs : ej.job_id = job_id}
    IN  IF found = {} THEN None ELSE Some(CHOOSE ej \in found : TRUE)

\* ------------------------------------------- models/mod.rs, PostgresStorage
\* Mutant of fetch_add: the sum is not stored
fetch_add_not_stored(counter, val) == counter

\* AtomicU32::fetch_add(val, SeqCst) on current_index: the value it stores;
\* the value it returns is the one before
fetch_add(counter, val) == counter + val

\* get_next_nonce_indexes, the loop after the fetch_add: num indexes pushed,
\* counting up from the value fetch_add returned
RECURSIVE push_indexes(_, _, _)
push_indexes(indexes, current, num) ==
    IF num = 0 THEN indexes
    ELSE push_indexes(Append(indexes, current), current + 1, num - 1)

\* save_announcement, one transaction: the events row, then one event_nonces
\* row per index (primary key id).  ok = FALSE: the transaction failed and
\* nothing is stored.
save_announcement(announcement, indexes) ==
    LET event_id == Len(events) + 1
        new_event_nonces ==
            {[id |-> indexes[k], event_id |-> event_id, index |-> k - 1,
              outcome |-> None, signature |-> None] : k \in DOMAIN indexes}
    IN  IF \/ \E r \in new_event_nonces : \E q \in event_nonces : q.id = r.id
           \/ Cardinality(new_event_nonces) # Len(indexes)
        THEN [ok |-> FALSE, id |-> 0, events |-> events,
              event_nonces |-> event_nonces]
        ELSE [ok |-> TRUE, id |-> event_id,
              events |-> Append(events,
                    [outcomes |-> announcement.outcomes,
                     announcement_event_id |-> None,
                     attestation_event_id |-> None]),
              event_nonces |-> event_nonces \cup new_event_nonces]

\* sort_by_key(|nonce| nonce.index): the place of nonce n among nonces
place(n, nonces) == Cardinality({m \in nonces : m.index < n.index}) + 1

\* save_signatures, one transaction: the event must exist and have as many
\* nonces as there are signatures; the nonces sorted by index are zipped
\* with the signatures (in the order the map yields them) and each row is
\* updated with its outcome and signature.
save_signatures(id, signatures) ==
    LET nonces == {n \in event_nonces : n.event_id = id}
    IN  IF \/ id \notin DOMAIN events
           \/ Cardinality(nonces) # Len(signatures)
        THEN [ok |-> FALSE, event_nonces |-> event_nonces]
        ELSE [ok |-> TRUE,
              event_nonces |-> (event_nonces \ nonces) \cup
                {[n EXCEPT !.outcome = Some(signatures[place(n, nonces)].outcome),
                           !.signature = Some(signatures[place(n, nonces)].sig)] :
                    n \in nonces}]

\* get_event: Option<OracleEventData>.  indexes are the nonces' index
\* columns, signatures the (outcome, signature) pairs of the nonces that
\* carry both.
get_event(id) ==
    IF id \notin DOMAIN events THEN None
    ELSE LET nonces == {n \in event_nonces : n.event_id = id}
         IN  Some([outcomes |-> events[id].outcomes,
                   indexes |-> [k \in 1..Cardinality(nonces) |->
                       (CHOOSE n \in nonces : place(n, nonces) = k).index],
                   signatures |->
                       {<<Unwrap(n.outcome), Unwrap(n.signature)>> :
                           n \in {m \in nonces : IsSome(m.outcome)
                                                  /\ IsSome(m.signature)}},
                   announcement_event_id |-> events[id].announcement_event_id,
                   attestation_event_id |-> events[id].attestation_event_id])

\* add_announcement_event_id: the table after the update
add_announcement_event_id(table, id, event_id) ==
    [table EXCEPT ![id].announcement_event_id = Some(event_id)]

\* add_attestation_event_id: the table after the update
add_attestation_event_id(table, id, event_id) ==
    [table EXCEPT ![id].attestation_event_id = Some(event_id)]

\* -------------------------------------------------------------- task slots
FreeSlot(tasks, t) ==
    /\ tasks[t].pc = "idle"
    /\ \A u \in DOMAIN tasks : u < t => tasks[u].pc # "idle"

\* What has arrived from outside so far: requests, Settled updates, invoice
\* requests, scheduler rounds and clock ticks
Inputs ==
    Cardinality({t \in DOMAIN evTasks : evTasks[t].pc # "idle"})
    + Cardinality({t \in DOMAIN invTasks : invTasks[t].pc # "idle"})
    + Cardinality({i \in DOMAIN invoices : invoices[i].for = "zap"})
    + Cardinality({k \in DOMAIN rounds : rounds[k].pc # "idle"})
    + now

\* ------------------------------------------------------------------- clock
Tick ==
    /\ now < MaxTime
    /\ Inputs < MaxInputs
    /\ now' = now + 1
    /\ UNCHANGED <<invoices, jobs, zaps, balances, active, published, wasmRuns,
                   ledger, zapCredits, evTasks, invTasks, rounds, schedTasks>>
    /\ UNCHANGED <<oracleVars, calls, runner>>

\* ------------------------------------------------------------ routes.rs
\* GET /get-invoice/{hash}?amount=..&nostr=..: add_invoice, then create_zap
\* when a zap request came with it.  create_zap is one transaction: the
\* balance row is created when missing, then the zap row is inserted.
get_invoice_impl(amount_msats, for_npub, zap_request) ==
    /\ Inputs < MaxInputs
    /\ Cardinality({i \in DOMAIN invoices : invoices[i].for = "zap"}) < MaxZaps
    /\ invoices' = Append(invoices,
            [value_msat |-> amount_msats, settled |-> FALSE, for |-> "zap"])
    /\ IF zap_request
       THEN /\ balances' = [balances EXCEPT ![for_npub] =
                                IF balances[for_npub] = None THEN Some(0)
                                ELSE balances[for_npub]]
            /\ zaps' = zaps \cup
                 {[payment_hash |-> InvoiceHash(Len(invoices) + 1),
                   amount_msats |-> AsI32(amount_msats),
                   npub |-> for_npub, note_id |-> None]}
            /\ zapCredits' = [h \in DOMAIN zapCredits \cup {InvoiceHash(Len(invoices) + 1)} |->
                                IF h \in DOMAIN zapCredits THEN zapCredits[h] ELSE 0]
       ELSE UNCHANGED <<balances, zaps, zapCredits>>
    /\ UNCHANGED <<now, jobs, active, published, wasmRuns, ledger,
                   evTasks, invTasks, rounds, schedTasks>>
    /\ UNCHANGED <<oracleVars, calls, runner>>

\* ------------------------------------------------------- job_listener.rs
\* create_job_feedback_invoice: add_invoice, Job::create, and the
\* PaymentRequired feedback that handle_event then sends
create_job_feedback_invoice(event, value, scheduled_at) ==
    LET i == Len(invoices) + 1
    IN  /\ invoices' = Append(invoices,
                [value_msat |-> ToU64(value), settled |-> FALSE, for |-> "job"])
        /\ jobs' = Append(jobs, Job_create(InvoiceHash(i), event, scheduled_at))
        /\ published' = published \cup
                {NewEvent("PaymentRequired", RequestId(event), value, i, "")}

\* Tag::PublicKey { uppercase: false, .. }: the first such tag, if any
first_p_tag(tags) ==
    LET found == {k \in DOMAIN tags : ~tags[k].uppercase}
    IN  IF found = {} THEN None
        ELSE Some(tags[CHOOSE k \in found : \A m \in found : k <= m].public_key)

\* Mutant of valid_input_tag: any tag that ends in "text" is accepted
valid_input_tag_any_text(tag) == tag.len = 2 \/ tag.third = "text"

\* vec.len() == 2 || (vec.len() == 3 && vec[2] == "text")
valid_input_tag(tag) == tag.len = 2 \/ (tag.len = 3 /\ tag.third = "text")

\* get_job_params: the error it returns, if any.  An encrypted request
\* needs a lowercase p tag, the first of which must be the service's key;
\* every request needs an i tag of an accepted shape.  Failures of the
\* decryption and of the JSON parsers are not modelled.
get_job_params(event) ==
    IF event.encrypted /\ first_p_tag(event.p_tags) = None
    THEN Some("Encrypted tag not found")
    ELSE IF event.encrypted /\ Unwrap(first_p_tag(event.p_tags)) # ServiceKey
    THEN Some("Params are not encrypted to us!")
    ELSE IF \A k \in DOMAIN event.i_tags : ~valid_input_tag(event.i_tags[k])
    THEN Some("Valid input tag not found")
    ELSE None

\* handle_event, from the spawn to the balance read: get_job_params, the run-time limit,
\* ZapBalance::get, and the arm without enough balance
handle_event(event) ==
    \E t \in DOMAIN evTasks :
        /\ FreeSlot(evTasks, t)
        /\ event.id = t
        /\ Inputs < MaxInputs
        /\ IF IsSome(get_job_params(event))
           THEN /\ evTasks' = [evTasks EXCEPT ![t] =
                        [pc |-> "failed", request |-> event,
                         err |-> Unwrap(get_job_params(event))]]
                /\ UNCHANGED <<invoices, jobs, published>>
           ELSE IF TimeTooLong(event)
           THEN /\ published' = published \cup
                      {NewEvent("FeedbackError", RequestId(event), 0, 0,
                                "Time must be less than 10 minutes")}
                /\ evTasks' = [evTasks EXCEPT ![t] = [pc |-> "done", request |-> event]]
                /\ UNCHANGED <<invoices, jobs>>
           ELSE LET balance == balances[event.pubkey]
                IN  IF IsSome(balance) /\ BalanceCovers(Unwrap(balance), value_msat(event))
                    THEN /\ evTasks' = [evTasks EXCEPT ![t] =
                                [pc |-> "deduct", request |-> event,
                                 balance_msats |-> Unwrap(balance)]]
                         /\ UNCHANGED <<invoices, jobs, published>>
                    ELSE /\ create_job_feedback_invoice(event, value_msat(event),
                                                        run_date(event.schedule))
                         /\ evTasks' = [evTasks EXCEPT ![t] =
                                [pc |-> "done", request |-> event]]
        /\ UNCHANGED <<now, zaps, balances, active, wasmRuns, ledger, zapCredits,
                       invTasks, rounds, schedTasks>>
        /\ UNCHANGED <<oracleVars, calls, runner>>


\* -------------------------------------------------- invoice_subscriber.rs
\* What download_and_run_wasm can return: a guest output or an error
WasmOutcomes ==
    {[ok |-> TRUE, val |-> o] : o \in Outputs} \cup {[ok |-> FALSE, val |-> "Timeout"]}

\* The secret key that belongs to a public key
SecretKey(public_key) == [secret_of |-> public_key]

\* The secret shared by a secret key and a public key: the same for the
\* service's secret key with a user's public key and for that user's secret
\* key with the service's public key
shared_key(secret_key, public_key) ==
    IF secret_key.secret_of = ServiceKey THEN public_key \o "~" \o ServiceKey
    ELSE IF public_key = ServiceKey THEN secret_key.secret_of \o "~" \o ServiceKey
    ELSE secret_key.secret_of \o "!" \o public_key

\* Mutant of nip04_encrypt: the text is encrypted to the sender's own key
nip04_encrypt_to_self(secret_key, public_key, text) ==
    "nip04:" \o shared_key(secret_key, secret_key.secret_of) \o ":" \o text

\* nip04::encrypt(secret_key, public_key, text): a ciphertext under the
\* shared secret
nip04_encrypt(secret_key, public_key, text) ==
    "nip04:" \o shared_key(secret_key, public_key) \o ":" \o text

\* nip04::decrypt(secret_key, public_key, content): the text whose
\* ciphertext under the shared secret is content, if there is one
nip04_decrypt(secret_key, public_key, content) ==
    LET texts == {t \in Outputs : nip04_encrypt(secret_key, public_key, t) = content}
    IN  IF texts = {} THEN None ELSE Some(CHOOSE t \in texts : TRUE)

\* The input get_job_params returns with the JobParams: the second element
\* of the accepted i tag, the JSON text of the parameters, taken from the
\* decrypted tags when the request is encrypted
job_input(event) == [time |-> event.time, schedule |-> event.schedule]

\* Mutant of run_job_request: the feedback of a failed run has no message
run_job_request_no_message(event, outcome) ==
    IF outcome.ok
    THEN NewEvent("JobResult", RequestId(event), 0, 0, outcome.val)
            @@ [encrypted |-> FALSE]
    ELSE NewEvent("FeedbackError", RequestId(event), 0, 0, "")

\* run_job_request: the reply built from the outcome of the run.  Of the
\* tags of a JobResult, p, e and request are kept in ref and
\* Tag::Generic(TagKind::I, vec![input]) in the field i.  The
\* result of an encrypted request is encrypted to its author and carries
\* the Encrypted tag (field encrypted).  A feedback carries the error as
\* the extra_info of its status tag, kept here in the content field (see
\* event_content).
run_job_request(event, outcome) ==
    IF outcome.ok
    THEN IF event.encrypted
         THEN NewEvent("JobResult", RequestId(event), 0, 0,
                       nip04_encrypt(SecretKey(ServiceKey), event.pubkey,
                                     outcome.val))
                @@ [encrypted |-> TRUE, i |-> job_input(event)]
         ELSE NewEvent("JobResult", RequestId(event), 0, 0, outcome.val)
                @@ [encrypted |-> FALSE, i |-> job_input(event)]
    ELSE NewEvent("FeedbackError", RequestId(event), 0, 0, outcome.val)

\* event.content of a reply: the payload of a JobResult; job_feedback is
\* called with payload None, which makes the content empty
event_content(e) == IF e.kind = "JobResult" THEN e.content ELSE ""

\* Oracle::create_enum_event: get_next_nonce_indexes(1), then
\* save_announcement of the announcement signed over the outcomes
create_enum_event(outcomes) ==
    LET indexes == push_indexes(<<>>, current_index, 1)
        saved == save_announcement([outcomes |-> outcomes], indexes)
    IN  [id |-> saved.id, events |-> saved.events,
         event_nonces |-> saved.event_nonces,
         current_index |-> fetch_add(current_index, 1)]

\* create_announcement_event: the nostr event of the announcement of oracle
\* event id
create_announcement_event(id) ==
    [kind |-> "Announcement", ref |-> <<"oracle", id>>, amount |-> 0,
     bolt11 |-> 0, content |-> "", n |-> 1]

\* Mutant of handle_job_request: the request is run at once and both fields
\* of HandleJobResult are filled
handle_job_request_both_fields(event, job, by, outcome) ==
    [err |-> None, new_job |-> None,
     run |-> Some(NewRun(event, job, by)),
     reply_event |-> Some(run_job_request(event, outcome)),
     oracle_announcement |-> Some(NewEvent("Request", RequestId(event), 0, 0, "")),
     events |-> events, event_nonces |-> event_nonces,
     event_jobs |-> event_jobs, current_index |-> current_index]

\* handle_job_request for the request `event`, called by handler `by` that
\* holds jobs row `job` (0: none).  err: the error it returned, if any;
\* new_job: the row Job::create_scheduled inserts; run: the Wasm run made;
\* reply_event and oracle_announcement: the fields of HandleJobResult (the
\* latter is the `event` parameter, the request); events, event_nonces,
\* event_jobs, current_index: the oracle's tables and counter afterwards.
handle_job_request(event, job, by, outcome) ==
    LET kept == [events |-> events, event_nonces |-> event_nonces,
                 event_jobs |-> event_jobs, current_index |-> current_index]
    IN
    IF IsSome(event.schedule)
    THEN LET schedule == Unwrap(event.schedule)
         IN
         IF schedule.run_date <= now
         THEN [err |-> Some("Schedule run date must be in the future"),
               new_job |-> None, run |-> None,
               reply_event |-> None, oracle_announcement |-> None] @@ kept
         ELSE LET oracle_data ==
                      IF IsSome(schedule.expected_outputs)
                      THEN Some(create_enum_event(Unwrap(schedule.expected_outputs)))
                      ELSE None
                  created == IF IsSome(oracle_data)
                             THEN [events |-> Unwrap(oracle_data).events,
                                   event_nonces |-> Unwrap(oracle_data).event_nonces,
                                   event_jobs |-> event_jobs,
                                   current_index |-> Unwrap(oracle_data).current_index]
                             ELSE kept
                  new_job == Job_create_scheduled(event, schedule.run_date)
              IN  IF ~jobs_payment_hash_key(new_job)
                  THEN [err |-> Some("duplicate key value"),
                        new_job |-> None, run |-> None,
                        reply_event |-> None, oracle_announcement |-> None]
                       @@ created
                  ELSE [err |-> None,
                        new_job |-> Some(new_job),
                        run |-> None,
                        reply_event |-> None,
                        oracle_announcement |->
                            Some(NewEvent("Request", RequestId(event), 0, 0, "")),
                        events |->
                            IF IsSome(oracle_data)
                            THEN add_announcement_event_id(created.events,
                                    Unwrap(oracle_data).id,
                                    create_announcement_event(Unwrap(oracle_data).id))
                            ELSE created.events,
                        event_nonces |-> created.event_nonces,
                        event_jobs |->
                            IF IsSome(oracle_data)
                            THEN event_jobs \cup
                                    {[job_id |-> Len(jobs) + 1,
                                      event_id |-> Unwrap(oracle_data).id]}
                            ELSE event_jobs,
                        current_index |-> created.current_index]
    ELSE [err |-> None, new_job |-> None,
          run |-> Some(NewRun(event, job, by)),
          reply_event |-> Some(run_job_request(event, outcome)),
          oracle_announcement |-> None] @@ kept

\* The elements of an Option, as a set
OptSet(o) == IF IsSome(o) THEN {Unwrap(o)} ELSE {}

\* handle_event, the arm with enough balance: update_balance on the row read
\* before, handle_job_request, the reply and Job::create_completed
handle_event_deduct(t) ==
    /\ evTasks[t].pc = "deduct"
    /\ LET event == evTasks[t].request
           amt == value_msat(event)
           new_balance == update_balance(evTasks[t].balance_msats, -amt)
       IN  IF new_balance = None
           THEN /\ evTasks' = [evTasks EXCEPT ![t] =
                        [pc |-> "failed", request |-> event,
                         err |-> "Insufficient balance"]]
                /\ UNCHANGED <<balances, ledger, jobs, published, wasmRuns>>
                /\ UNCHANGED oracleVars
           ELSE \E outcome \in WasmOutcomes :
                LET res == handle_job_request(event, 0, "handle_event", outcome)
                    jobs1 == IF IsSome(res.new_job)
                             THEN Append(jobs, Unwrap(res.new_job)) ELSE jobs
                    completed == IF IsSome(res.reply_event)
                                 THEN Some(Job_create_completed(event,
                                                Unwrap(res.reply_event)))
                                 ELSE None
                    stored == completed = None
                              \/ jobs_payment_hash_key(Unwrap(completed))
                IN  /\ balances' = [balances EXCEPT ![event.pubkey] = new_balance]
                    /\ ledger' = [ledger EXCEPT ![event.pubkey] = @ - amt]
                    /\ wasmRuns' = wasmRuns \cup OptSet(res.run)
                    /\ published' = published \cup OptSet(res.reply_event)
                                              \cup OptSet(res.oracle_announcement)
                    /\ jobs' = IF IsSome(completed) /\ stored
                               THEN Append(jobs1, Unwrap(completed))
                               ELSE jobs1
                    /\ events' = res.events
                    /\ event_nonces' = res.event_nonces
                    /\ event_jobs' = res.event_jobs
                    /\ current_index' = res.current_index
                    /\ evTasks' = [evTasks EXCEPT ![t] =
                            IF IsSome(res.err)
                            THEN [pc |-> "failed", request |-> event,
                                  err |-> Unwrap(res.err)]
                            ELSE IF ~stored
                            THEN [pc |-> "failed", request |-> event,
                                  err |-> "duplicate key value",
                                  result |-> outcome]
                            ELSE IF IsSome(res.run)
                            THEN [pc |-> "done", request |-> event,
                                  result |-> outcome]
                            ELSE [pc |-> "done", request |-> event]]
    /\ UNCHANGED <<now, invoices, zaps, active, zapCredits, invTasks, rounds,
                   schedTasks, calls, runner>>

\* tokio::spawn of handle_invoice for the update of invoice i:
\* Job::get_by_payment_hash, and for a hash that is no job handle_paid_zap
\* up to the zap receipt it sends
handle_invoice_spawn(i) ==
    \E t \in DOMAIN invTasks :
        /\ FreeSlot(invTasks, t)
        /\ Inputs < MaxInputs
        /\ i \in DOMAIN invoices
        /\ LET r_hash == InvoiceHash(i)
               job == Job_get_by_payment_hash(r_hash)
               zap == Zap_find_by_payment_hash(r_hash)
           IN  IF IsSome(job)
               THEN /\ invTasks' = [invTasks EXCEPT ![t] =
                            [pc |-> "job", payment_hash |-> r_hash,
                             job |-> Unwrap(job)]]
                    /\ UNCHANGED published
               ELSE IF zap = None \/ IsSome(Unwrap(zap).note_id)
               THEN /\ invTasks' = [invTasks EXCEPT ![t] =
                            [pc |-> "done", payment_hash |-> r_hash]]
                    /\ UNCHANGED published
               ELSE LET receipt == NewEvent("ZapReceipt", r_hash, 0, 0, "")
                    IN  /\ published' = published \cup {receipt}
                        /\ invTasks' = [invTasks EXCEPT ![t] =
                                [pc |-> "zap", payment_hash |-> r_hash,
                                 note_id |-> receipt]]
        /\ UNCHANGED <<now, jobs, zaps, balances, active, wasmRuns, ledger,
                       zapCredits, evTasks, rounds, schedTasks>>
        /\ UNCHANGED <<oracleVars, calls, runner>>

\* The invoice stream delivers a Settled update for invoice i and
\* handle_invoice is spawned
handle_invoice(i) ==
    /\ invoices' = [invoices EXCEPT ![i].settled = TRUE]
    /\ handle_invoice_spawn(i)

\* handle_invoice for a job row: handle_job_request on the stored request,
\* the reply and Job::set_response_id
handle_invoice_job(t) ==
    /\ invTasks[t].pc = "job"
    /\ \E outcome \in WasmOutcomes :
        LET id == invTasks[t].job
            event == jobs[id].request
            res == handle_job_request(event, id, "handle_invoice", outcome)
            jobs1 == IF IsSome(res.new_job)
                     THEN Append(jobs, Unwrap(res.new_job)) ELSE jobs
        IN  /\ wasmRuns' = wasmRuns \cup OptSet(res.run)
            /\ published' = published \cup OptSet(res.reply_event)
                                      \cup OptSet(res.oracle_announcement)
            /\ jobs' = IF IsSome(res.reply_event)
                       THEN Job_set_response_id(id, Unwrap(res.reply_event))
                       ELSE jobs1
            /\ events' = res.events
            /\ event_nonces' = res.event_nonces
            /\ event_jobs' = res.event_jobs
            /\ current_index' = res.current_index
            /\ invTasks' = [invTasks EXCEPT ![t] =
                    IF IsSome(res.err)
                    THEN [pc |-> "failed", payment_hash |-> invTasks[t].payment_hash,
                          err |-> Unwrap(res.err)]
                    ELSE IF IsSome(res.run)
                    THEN [pc |-> "done", payment_hash |-> invTasks[t].payment_hash,
                          result |-> outcome]
                    ELSE [pc |-> "done", payment_hash |-> invTasks[t].payment_hash]]
    /\ UNCHANGED <<now, invoices, zaps, balances, active, ledger, zapCredits,
                   evTasks, rounds, schedTasks, calls, runner>>

\* Mutant of mark_zap_paid: the note id is stored and the balance is left
mark_zap_paid_no_credit(t) ==
    /\ invTasks[t].pc = "zap"
    /\ LET zap == CHOOSE z \in zaps : z.payment_hash = invTasks[t].payment_hash
       IN  /\ invTasks' = [invTasks EXCEPT ![t] =
                    [pc |-> "done", payment_hash |-> zap.payment_hash]]
           /\ zaps' = (zaps \ {zap}) \cup
                    {[zap EXCEPT !.note_id = Some(invTasks[t].note_id)]}
    /\ UNCHANGED <<now, invoices, jobs, balances, active, published, wasmRuns,
                   ledger, zapCredits, evTasks, rounds, schedTasks>>
    /\ UNCHANGED <<oracleVars, calls, runner>>

\* mark_zap_paid, one transaction: Zap::update_note_id, ZapBalance::get and
\* update_balance by the zap's amount; an error rolls all of it back
mark_zap_paid(t) ==
    /\ invTasks[t].pc = "zap"
    /\ LET zap == CHOOSE z \in zaps : z.payment_hash = invTasks[t].payment_hash
           bal == balances[zap.npub]
           new_balance == IF IsSome(bal)
                          THEN update_balance(Unwrap(bal), zap.amount_msats)
                          ELSE None
       IN  IF IsSome(bal) /\ new_balance = None
           THEN /\ invTasks' = [invTasks EXCEPT ![t] =
                        [pc |-> "failed", payment_hash |-> zap.payment_hash,
                         err |-> "Insufficient balance"]]
                /\ UNCHANGED <<zaps, balances, ledger, zapCredits>>
           ELSE /\ invTasks' = [invTasks EXCEPT ![t] =
                        [pc |-> "done", payment_hash |-> zap.payment_hash]]
                /\ zaps' = (zaps \ {zap}) \cup
                        {[zap EXCEPT !.note_id = Some(invTasks[t].note_id)]}
                /\ IF IsSome(bal)
                   THEN /\ balances' = [balances EXCEPT ![zap.npub] = new_balance]
                        /\ ledger' = [ledger EXCEPT ![zap.npub] = @ + zap.amount_msats]
                        /\ zapCredits' = [zapCredits EXCEPT ![zap.payment_hash] = @ + 1]
                   ELSE UNCHANGED <<balances, ledger, zapCredits>>
    /\ UNCHANGED <<now, invoices, jobs, active, published, wasmRuns, evTasks,
                   rounds, schedTasks>>
    /\ UNCHANGED <<oracleVars, calls, runner>>

\* ---------------------------------------------- job_listener.rs, scheduler
\* process_schedule_jobs_round, the query of the ready jobs
process_schedule_jobs_round(k) ==
    /\ FreeSlot(rounds, k)
    /\ Inputs < MaxInputs
    /\ rounds' = [rounds EXCEPT ![k] =
            [pc |-> "queried", jobs |-> Job_get_ready_to_run_jobs]]
    /\ UNCHANGED <<now, invoices, jobs, zaps, balances, active, published,
                   wasmRuns, ledger, zapCredits, evTasks, invTasks, schedTasks>>
    /\ UNCHANGED <<oracleVars, calls, runner>>

\* The task holds the guard of active_jobs.lock(): run_scheduled_job takes
\* it after it has sent the reply and keeps it until it returns
HoldsLock(task) == task.pc = "finish"

\* active_jobs is locked by a run_scheduled_job task
Locked == \E task \in schedTasks : HoldsLock(task)

\* process_schedule_jobs_round under the active_jobs lock: retain the jobs
\* not active, extend the set, drop the guard, then spawn run_scheduled_job
\* for each
process_schedule_jobs_round_lease(k) ==
    /\ rounds[k].pc = "queried"
    /\ ~Locked
    /\ LET retained == {j \in rounds[k].jobs : j \notin active}
       IN  /\ active' = active \cup retained
           /\ schedTasks' = schedTasks \cup
                {[job |-> j, pc |-> "run", event_id |-> None, result |-> None] :
                    j \in retained}
    /\ rounds' = [rounds EXCEPT ![k] = [pc |-> "done"]]
    /\ UNCHANGED <<now, invoices, jobs, zaps, balances, published, wasmRuns,
                   ledger, zapCredits, evTasks, invTasks>>
    /\ UNCHANGED <<oracleVars, calls, runner>>

\* run_scheduled_job up to the reply it sends: run_job_request, send_event;
\* it then waits for the active_jobs lock
run_scheduled_job(task) ==
    /\ task \in schedTasks
    /\ task.pc = "run"
    /\ \E outcome \in WasmOutcomes :
        LET event == jobs[task.job].request
            reply == run_job_request(event, outcome)
        IN  /\ wasmRuns' = wasmRuns \cup {NewRun(event, task.job, "run_scheduled_job")}
            /\ published' = published \cup {reply}
            /\ schedTasks' = (schedTasks \ {task}) \cup
                    {[task EXCEPT !.pc = "sent", !.event_id = Some(reply),
                                  !.result = Some(outcome)]}
    /\ UNCHANGED <<now, invoices, jobs, zaps, balances, active, ledger,
                   zapCredits, evTasks, invTasks, rounds>>
    /\ UNCHANGED <<oracleVars, calls, runner>>

\* run_scheduled_job: active_jobs.lock().await and active.remove(&job.id)
run_scheduled_job_lock(task) ==
    /\ task \in schedTasks
    /\ task.pc = "sent"
    /\ ~Locked
    /\ active' = active \ {task.job}
    /\ schedTasks' = (schedTasks \ {task}) \cup {[task EXCEPT !.pc = "finish"]}
    /\ UNCHANGED <<now, invoices, jobs, zaps, balances, published, wasmRuns,
                   ledger, zapCredits, evTasks, invTasks, rounds>>
    /\ UNCHANGED <<oracleVars, calls, runner>>

\* Oracle::sign_enum_event: get_event, an event that carries signatures is
\* refused, else the outcome is signed with the nonce of the first index
\* and save_signatures stores it
sign_enum_event(id, outcome) ==
    LET data == get_event(id)
    IN  IF data = None \/ Unwrap(data).signatures # {}
        THEN [ok |-> FALSE, event_nonces |-> event_nonces]
        ELSE save_signatures(id,
                <<[outcome |-> outcome,
                   sig |-> [nonce_index |-> Unwrap(data).indexes[1],
                            outcome |-> outcome]]>>)

\* run_scheduled_job under the active_jobs lock, whose guard lives until
\* the function returns: db_pool.get, Job::set_response_id, then the
\* attestation when an EventJob links the job to an announced oracle event
\* and the content of the reply is one of its outcomes.  task.result is the
\* outcome of the run, kept for the properties only.
run_scheduled_job_finish(task) ==
    /\ task \in schedTasks
    /\ task.pc = "finish"
    /\ jobs' = Job_set_response_id(task.job, Unwrap(task.event_id))
    /\ schedTasks' = schedTasks \ {task}
    /\ LET event_job == EventJob_get_by_job_id(task.job)
           outcome == event_content(Unwrap(task.event_id))
           id == Unwrap(event_job).event_id
           oracle_event == get_event(id)
           signed == sign_enum_event(id, outcome)
           att_event == NewEvent("Attestation", <<"oracle", id>>, 0, 0, outcome)
       IN  IF /\ IsSome(event_job)
              /\ IsSome(oracle_event)
              /\ IsSome(Unwrap(oracle_event).announcement_event_id)
              /\ outcome \in Unwrap(oracle_event).outcomes
              /\ signed.ok
           THEN /\ event_nonces' = signed.event_nonces
                /\ events' = add_attestation_event_id(events, id, att_event)
                /\ published' = published \cup {att_event}
           ELSE UNCHANGED <<event_nonces, events, published>>
    /\ UNCHANGED <<now, invoices, zaps, balances, active, wasmRuns, ledger,
                   zapCredits, evTasks, invTasks, rounds>>
    /\ UNCHANGED <<event_jobs, current_index, calls, runner>>

\* ----------------------------------------------------------- specification
\* Everything but the arrival of a request
OtherTasks ==
    \/ Tick
    \/ \E a \in ZapAmounts, n \in Npubs, z \in BOOLEAN : get_invoice_impl(a, n, z)
    \/ \E t \in DOMAIN evTasks : handle_event_deduct(t)
    \/ \E i \in DOMAIN invoices : handle_invoice(i)
    \/ \E t \in DOMAIN invTasks : handle_invoice_job(t)
    \/ \E t \in DOMAIN invTasks : mark_zap_paid(t)
    \/ \E k \in DOMAIN rounds : process_schedule_jobs_round(k)
    \/ \E k \in DOMAIN rounds : process_schedule_jobs_round_lease(k)
    \/ \E task \in schedTasks : run_scheduled_job(task)
    \/ \E task \in schedTasks : run_scheduled_job_lock(task)
    \/ \E task \in schedTasks : run_scheduled_job_finish(task)

Next ==
    \/ \E r \in Requests : handle_event(r)
    \/ OtherTasks

Spec == Init /\ [][Next]_vars

\* ------------------------------------- failures of the storage and relays
\* run_scheduled_job under the lock when db_pool.get() or
\* Job::set_response_id returns an error: `?` returns, the guard is dropped
\* and the row keeps its null response_id
run_scheduled_job_finish_fails(task) ==
    /\ task \in schedTasks
    /\ task.pc = "finish"
    /\ schedTasks' = schedTasks \ {task}
    /\ UNCHANGED <<now, invoices, jobs, zaps, balances, active, published,
                   wasmRuns, ledger, zapCredits, evTasks, invTasks, rounds>>
    /\ UNCHANGED <<oracleVars, calls, runner>>

\* run_scheduled_job under the lock when the last call, client.send_event
\* of the attestation, fails: the response_id, the signature and the
\* attestation_event_id are stored by then
run_scheduled_job_attestation_unsent(task) ==
    /\ task \in schedTasks
    /\ task.pc = "finish"
    /\ jobs' = Job_set_response_id(task.job, Unwrap(task.event_id))
    /\ schedTasks' = schedTasks \ {task}
    /\ LET event_job == EventJob_get_by_job_id(task.job)
           outcome == event_content(Unwrap(task.event_id))
           id == Unwrap(event_job).event_id
           oracle_event == get_event(id)
           signed == sign_enum_event(id, outcome)
           att_event == NewEvent("Attestation", <<"oracle", id>>, 0, 0, outcome)
       IN  /\ IsSome(event_job)
           /\ IsSome(oracle_event)
           /\ IsSome(Unwrap(oracle_event).announcement_event_id)
           /\ outcome \in Unwrap(oracle_event).outcomes
           /\ signed.ok
           /\ event_nonces' = signed.event_nonces
           /\ events' = add_attestation_event_id(events, id, att_event)
    /\ UNCHANGED <<now, invoices, zaps, balances, active, published, wasmRuns,
                   ledger, zapCredits, evTasks, invTasks, rounds>>
    /\ UNCHANGED <<event_jobs, current_index, calls, runner>>

\* run_scheduled_job when client.send_event of the reply fails: the guest
\* has run, `?` returns the error, and the lines that take the lock and
\* remove the id are not reached
run_scheduled_job_send_fails(task) ==
    /\ task \in schedTasks
    /\ task.pc = "run"
    /\ wasmRuns' = wasmRuns \cup
            {NewRun(jobs[task.job].request, task.job, "run_scheduled_job")}
    /\ schedTasks' = schedTasks \ {task}
    /\ UNCHANGED <<now, invoices, jobs, zaps, balances, active, published,
                   ledger, zapCredits, evTasks, invTasks, rounds>>
    /\ UNCHANGED <<oracleVars, calls, runner>>

\* The steps in which a call to the storage or to the relays fails
Failures ==
    \/ \E task \in schedTasks : run_scheduled_job_finish_fails(task)
    \/ \E task \in schedTasks : run_scheduled_job_attestation_unsent(task)
    \/ \E task \in schedTasks : run_scheduled_job_send_fails(task)

\* The service with failing storage and relays
FailNext ==
    \/ \E r \in Requests : handle_event(r)
    \/ OtherTasks
    \/ Failures

FailSpec == Init /\ [][FailNext]_vars

\* A step of a spawned run_scheduled_job task, whatever its outcome
run_scheduled_job_step(task) ==
    \/ run_scheduled_job(task)
    \/ run_scheduled_job_send_fails(task)
    \/ run_scheduled_job_lock(task)
    \/ run_scheduled_job_finish(task)
    \/ run_scheduled_job_finish_fails(task)
    \/ run_scheduled_job_attestation_unsent(task)

\* FailSpec with an executor that goes on with every task it has spawned
\* and rounds that go on to take the lock
FairFailSpec ==
    /\ FailSpec
    /\ WF_vars(\E task \in schedTasks : run_scheduled_job_step(task))
    /\ WF_vars(\E k \in DOMAIN rounds : process_schedule_jobs_round_lease(k))

\* ------------------------------------------ the invoice stream on its own
\* lnrpc invoice states as the stream carries them: OPEN = 0, SETTLED = 1,
\* CANCELED = 2, ACCEPTED = 3, and a number no state has
InvoiceStateCodes == 0..4

\* Mutant of InvoiceState::from_i32: ACCEPTED read as Settled
InvoiceState_from_i32_accepted(value) ==
    CASE value = 0 -> Some("Open")
      [] value = 1 -> Some("Settled")
      [] value = 2 -> Some("Canceled")
      [] value = 3 -> Some("Settled")
      [] OTHER -> None

\* InvoiceState::from_i32(ln_invoice.state)
InvoiceState_from_i32(value) ==
    CASE value = 0 -> Some("Open")
      [] value = 1 -> Some("Settled")
      [] value = 2 -> Some("Canceled")
      [] value = 3 -> Some("Accepted")
      [] OTHER -> None

\* One turn of the while loop of start_invoice_subscription: the node
\* reports invoice i in the given state, and the match spawns handle_invoice
\* for Settled and does nothing for the rest.  The invoice keeps the state
\* last reported.
start_invoice_subscription(i, state) ==
    /\ i \in DOMAIN invoices
    /\ invoices' = [invoices EXCEPT ![i] =
            [state |-> state, settled |-> @.settled \/ state = 1] @@ @]
    /\ IF InvoiceState_from_i32(state) = Some("Settled")
       THEN handle_invoice_spawn(i)
       ELSE /\ UNCHANGED <<now, jobs, zaps, balances, active, published,
                           wasmRuns, ledger, zapCredits, evTasks, invTasks,
                           rounds, schedTasks>>
            /\ UNCHANGED <<oracleVars, calls, runner>>

\* The requests that are run as soon as their invoice is settled
StreamRequests ==
    {r \in Requests : r.schedule = None /\ ~r.encrypted /\ ~TimeTooLong(r)}

StreamNext ==
    \/ \E r \in StreamRequests : handle_event(r)
    \/ \E a \in ZapAmounts, n \in Npubs, z \in BOOLEAN : get_invoice_impl(a, n, z)
    \/ \E i \in DOMAIN invoices, state \in InvoiceStateCodes :
            start_invoice_subscription(i, state)
    \/ \E t \in DOMAIN invTasks : handle_invoice_job(t)
    \/ \E t \in DOMAIN invTasks : mark_zap_paid(t)

StreamSpec == Init /\ [][StreamNext]_vars

\* ------------------------------------------------ the price of a request
\* handle_event from the price to the amount charged, with params.time, the
\* configured price and the balance of the sender drawn from bounded sets.
\* runner holds the request being priced.  An f64 holds every integer below
\* 2^53 exactly, so for these inputs the product is the exact one.

\* params.time (ms) up to MAX_JOB_TIME
PricedTimes == {0, 1, 2, MAX_JOB_TIME - 1, MAX_JOB_TIME}

\* Config::price, whole msats per millisecond: with 3580 the price of
\* MAX_JOB_TIME ms is above i32::MAX, with 3579 it is below
Prices == {0, 1, 2, 3579, 3580}

\* ZapBalance::balance_msats of the sender
PricedBalances == {0, 2, 600000, I32_MAX - 1, I32_MAX}

\* (time as f64 * price) as u64 for 0 <= time < 2^20 and 0 <= price < 2^16,
\* as hi * 2^31 + lo: time is split at 2^15
f64_mul_as_u64(time, price) ==
    LET a == time \div 32768
        b == time % 32768
        h == (a * price) \div 65536
        x == ((a * price) % 65536) * 32768
        y == b * price
    IN  IF x > I32_MAX - y
        THEN U64(h + 1, x - (I32_MAX - y) - 1)
        ELSE U64(h, x + y)

\* u64 as i64: bit 63 is the sign, and it is clear below 2^62
AsI64(u) == [negative |-> FALSE, magnitude |-> u]

\* Mutant of balance_covers: the price converted before it is compared
balance_covers_after_cast(balance_msats, value) ==
    balance_msats >= AsI32(value)

\* (b.balance_msats as u64) >= value_msat: a negative i32 is sign-extended
\* to a u64 of 2^64 - |b|
balance_covers(balance_msats, value) ==
    \/ balance_msats < 0
    \/ value.hi = 0 /\ balance_msats >= value.lo

\* let value_msat = (params.time as f64 * price) as u64 and the match on
\* the balance
handle_event_price(time, price, balance_msats) ==
    /\ runner.pc = "idle"
    /\ LET value == f64_mul_as_u64(time, price)
       IN  runner' = [pc |-> IF balance_covers(balance_msats, value)
                             THEN "deduct" ELSE "invoice",
                      time |-> time, price |-> price,
                      balance_msats |-> balance_msats, value_msat |-> value]
    /\ UNCHANGED <<jobVars, oracleVars, calls>>

\* let amt = value_msat as i32; b.update_balance(&mut conn, -amt)
handle_event_update_balance ==
    /\ runner.pc = "deduct"
    /\ LET amt == AsI32(runner.value_msat)
       IN  runner' = [pc |-> "deducted", amt |-> amt,
                      new_balance |-> update_balance(runner.balance_msats, -amt)]
                     @@ runner
    /\ UNCHANGED <<jobVars, oracleVars, calls>>

\* create_job_feedback_invoice: the value of the lnrpc::Invoice and the
\* amount of the PaymentRequired feedback
create_job_feedback_invoice_value ==
    /\ runner.pc = "invoice"
    /\ runner' = [pc |-> "invoiced", invoice_value_msat |-> AsI64(runner.value_msat),
                  amount |-> runner.value_msat] @@ runner
    /\ UNCHANGED <<jobVars, oracleVars, calls>>

PriceNext ==
    \/ \E time \in PricedTimes, price \in Prices, balance_msats \in PricedBalances :
            handle_event_price(time, price, balance_msats)
    \/ handle_event_update_balance
    \/ create_job_feedback_invoice_value

PriceSpec == Init /\ [][PriceNext]_vars

\* ------------------------------------------------ the connection pool
\* The handlers of a scheduled request with expected outputs and the
\* connections they take from db_pool.  calls keeps one record per handler:
\* the function, the db_pool.get() it is at or the call it is in, and the
\* connections it holds.  What the handlers write is left out.
\*   "handler"                    let mut conn = db_pool.get()? of the handler
\*   "save_announcement"          handle_job_request, create_enum_event:
\*                                self.db_pool.get() of save_announcement
\*   "transaction"                save_announcement with its connection
\*   "add_announcement_event_id"  Job::create_scheduled and EventJob::create
\*                                done on conn: self.db_pool.get() of
\*                                add_announcement_event_id
\*   "update"                     add_announcement_event_id with its connection
\*   "done" / "failed"            the handler has returned Ok / Err

\* Connections checked out
CheckedOut ==
    Cardinality({q \in (DOMAIN calls) \X (1..PoolSize) : q[2] <= calls[q[1]].held})

\* Connections idle in the pool
IdleConnections == PoolSize - CheckedOut

\* The handler is at a db_pool.get()
AtGet(c) ==
    calls[c].pc \in {"handler", "save_announcement", "add_announcement_event_id"}

\* tokio::spawn of handle_invoice (for a settled job invoice) or of
\* handle_event (for a request paid from the balance)
spawn_handler(fn) ==
    /\ Len(calls) < MaxHandlers
    /\ calls' = Append(calls, [fn |-> fn, pc |-> "handler", held |-> 0])
    /\ UNCHANGED <<jobVars, oracleVars, runner>>

\* Pool::get when a connection is idle: it is checked out
Pool_get(c) ==
    /\ AtGet(c)
    /\ IdleConnections > 0
    /\ calls' = [calls EXCEPT ![c].held = @ + 1,
                              ![c].pc = CASE @ = "handler" -> "save_announcement"
                                          [] @ = "save_announcement" -> "transaction"
                                          [] OTHER -> "update"]
    /\ UNCHANGED <<jobVars, oracleVars, runner>>

\* Pool::get when no connection is idle for connection_timeout: it returns
\* Err, `?` returns from the handler and its connection is dropped
Pool_get_timeout(c) ==
    /\ AtGet(c)
    /\ IdleConnections = 0
    /\ calls' = [calls EXCEPT ![c].held = 0, ![c].pc = "failed"]
    /\ UNCHANGED <<jobVars, oracleVars, runner>>

\* save_announcement or add_announcement_event_id returns and its connection
\* is dropped; after the second the handler sends its events and returns
Storage_return(c) ==
    /\ calls[c].pc \in {"transaction", "update"}
    /\ calls' = [calls EXCEPT
            ![c].held = IF calls[c].pc = "update" THEN 0 ELSE @ - 1,
            ![c].pc = IF @ = "transaction" THEN "add_announcement_event_id"
                      ELSE "done"]
    /\ UNCHANGED <<jobVars, oracleVars, runner>>

PoolNext ==
    \/ \E fn \in {"handle_invoice", "handle_event"} : spawn_handler(fn)
    \/ \E c \in DOMAIN calls : Pool_get(c)
    \/ \E c \in DOMAIN calls : Pool_get_timeout(c)
    \/ \E c \in DOMAIN calls : Storage_return(c)

PoolSpec == Init /\ [][PoolNext]_vars

\* ------------------------------------------------- the top-level loops
\* main runs listen_for_jobs and start_invoice_subscription, each in a loop
\* that logs an Err and calls the function again.  runner holds the two
\* loops: "listening" while the function is in its while loop, "Ok" or "Err"
\* when it has returned, "panicked" when its task has unwound.
Listening(loop) == runner.pc = "main" /\ runner[loop] = "listening"

Stopped(loop) == runner.pc = "main" /\ runner[loop] \in {"Ok", "Err"}

\* main: both loops are entered
main ==
    /\ runner.pc = "idle"
    /\ runner' = [pc |-> "main", listen_for_jobs |-> "listening",
                  start_invoice_subscription |-> "listening"]
    /\ UNCHANGED <<jobVars, oracleVars, calls>>

\* listen_for_jobs returns: notifications.recv() gave Err and the while
\* loop ended, then client.disconnect() gave Ok or Err; or add_relays
\* failed when it was called again
listen_for_jobs_returns(result) ==
    /\ Listening("listen_for_jobs")
    /\ runner' = [runner EXCEPT !.listen_for_jobs = result]
    /\ UNCHANGED <<jobVars, oracleVars, calls>>

\* loop { if let Err(e) = listen_for_jobs(..).await { error!(..) } }
main_loop ==
    /\ Stopped("listen_for_jobs")
    /\ runner' = [runner EXCEPT !.listen_for_jobs = "listening"]
    /\ UNCHANGED <<jobVars, oracleVars, calls>>

\* start_invoice_subscription returns: the stream ended (message() gave
\* None) and client.disconnect() gave Ok or Err; or add_relays failed
start_invoice_subscription_returns(result) ==
    /\ Listening("start_invoice_subscription")
    /\ runner' = [runner EXCEPT !.start_invoice_subscription = result]
    /\ UNCHANGED <<jobVars, oracleVars, calls>>

\* subscribe_invoices or invoice_stream.message() gave an error: expect
\* panics
start_invoice_subscription_panics ==
    /\ Listening("start_invoice_subscription")
    /\ runner' = [runner EXCEPT !.start_invoice_subscription = "panicked"]
    /\ UNCHANGED <<jobVars, oracleVars, calls>>

\* The loop around start_invoice_subscription: it is called again when it
\* has returned
invoice_loop ==
    /\ Stopped("start_invoice_subscription")
    /\ runner' = [runner EXCEPT !.start_invoice_subscription = "listening"]
    /\ UNCHANGED <<jobVars, oracleVars, calls>>

LoopNext ==
    \/ main
    \/ \E result \in {"Ok", "Err"} : listen_for_jobs_returns(result)
    \/ main_loop
    \/ \E result \in {"Ok", "Err"} : start_invoice_subscription_returns(result)
    \/ start_invoice_subscription_panics
    \/ invoice_loop
    \/ \E r \in StreamRequests : Listening("listen_for_jobs") /\ handle_event(r)
    \/ \E i \in DOMAIN invoices :
            Listening("start_invoice_subscription") /\ handle_invoice(i)
    \/ \E t \in DOMAIN invTasks : handle_invoice_job(t)

\* The executor goes on with a loop of main that is ready to go on
LoopSpec ==
    Init /\ [][LoopNext]_vars /\ WF_vars(main) /\ WF_vars(main_loop)
         /\ WF_vars(invoice_loop)

\* The service when the relays also deliver requests with other tags
RequestNext ==
    \/ \E r \in Requests \cup OddRequests : handle_event(r)
    \/ OtherTasks

RequestSpec == Init /\ [][RequestNext]_vars

\* ------------------------------------------ the Storage calls on their own
\* Callers that hold clones of one PostgresStorage call its Storage
\* functions with arguments drawn from bounded sets.  calls keeps one record
\* per call: the function, where the caller is, its arguments and what it
\* got back.  seq numbers the returns of get_next_nonce_indexes in the
\* order they happen; signed_before tells whether a nonce of the event
\* carried an outcome when save_signatures was called.
StorageCall(fn, pc, num, current, id, ok, signed_before) ==
    [fn |-> fn, pc |-> pc, num |-> num, current |-> current,
     indexes |-> <<>>, seq |-> 0, id |-> id, ok |-> ok,
     signed_before |-> signed_before]

\* The calls of get_next_nonce_indexes that have returned
Returned ==
    {c \in DOMAIN calls :
        calls[c].fn = "get_next_nonce_indexes" /\ calls[c].pc = "done"}

\* get_next_nonce_indexes(num), the fetch_add on the shared counter
get_next_nonce_indexes(num) ==
    /\ Len(calls) < MaxCalls
    /\ current_index' = fetch_add(current_index, num)
    /\ calls' = Append(calls,
            StorageCall("get_next_nonce_indexes", "fetched", num,
                        current_index, 0, TRUE, FALSE))
    /\ UNCHANGED <<jobVars, events, event_nonces, event_jobs, runner>>

\* get_next_nonce_indexes, the loop on the caller's own values and the
\* return of the list
get_next_nonce_indexes_return(c) ==
    /\ calls[c].fn = "get_next_nonce_indexes"
    /\ calls[c].pc = "fetched"
    /\ calls' = [calls EXCEPT
            ![c].pc = "done",
            ![c].indexes = push_indexes(<<>>, calls[c].current, calls[c].num),
            ![c].seq = Cardinality(Returned) + 1]
    /\ UNCHANGED <<jobVars, oracleVars, runner>>

\* save_announcement with the indexes a call of get_next_nonce_indexes
\* returned, as create_enum_event calls it
save_announcement_call(c, outcomes) ==
    /\ c \in Returned
    /\ Len(events) < MaxOracleEvents
    /\ LET saved == save_announcement([outcomes |-> outcomes], calls[c].indexes)
       IN  /\ saved.ok
           /\ events' = saved.events
           /\ event_nonces' = saved.event_nonces
    /\ UNCHANGED <<jobVars, event_jobs, current_index, calls, runner>>

\* A signature over outcome o as sign_enum_event makes it, and the maps of
\* outcome to signature, each in the orders its iterator may yield
Signed(o) == [outcome |-> o, sig |-> [nonce_index |-> 0, outcome |-> o]]

SignatureMaps ==
    {<<Signed(o)>> : o \in Outputs}
    \cup {<<Signed(p[1]), Signed(p[2])>> :
            p \in {q \in Outputs \X Outputs : q[1] # q[2]}}

\* save_signatures(id, signatures)
save_signatures_call(id, signatures) ==
    /\ Len(calls) < MaxCalls
    /\ LET saved == save_signatures(id, signatures)
       IN  /\ event_nonces' = saved.event_nonces
           /\ calls' = Append(calls,
                StorageCall("save_signatures", "done", 0, 0, id, saved.ok,
                    \E n \in event_nonces :
                        n.event_id = id /\ IsSome(n.outcome)))
    /\ UNCHANGED <<jobVars, events, event_jobs, current_index, runner>>

OracleNext ==
    \/ \E num \in 0..MaxNum : get_next_nonce_indexes(num)
    \/ \E c \in DOMAIN calls : get_next_nonce_indexes_return(c)
    \/ \E c \in DOMAIN calls : save_announcement_call(c, Outputs)
    \/ \E id \in 1..(Len(events) + 1), m \in SignatureMaps :
            save_signatures_call(id, m)

OracleSpec == Init /\ [][OracleNext]_vars

\* ------------------------- nonce ids over failed insertions and restarts
\* The callers reserve nonce ids and try to save an announcement with them;
\* the insertion may fail, and the process may be restarted, which makes a
\* new PostgresStorage and ends every call in flight.  In calls, id is the
\* event a reservation was saved as (0: not saved) and ok = FALSE marks a
\* reservation whose insertion failed or whose caller is gone.

\* Mutant of EventNonce_get_next_id: the counter starts at 0
EventNonce_get_next_id_zero(rows) == 0

\* EventNonce::get_next_id: max(event_nonces.id) + 1, 0 for an empty table
EventNonce_get_next_id(rows) ==
    IF rows = {} THEN 0
    ELSE (CHOOSE n \in rows : \A m \in rows : m.id <= n.id).id + 1

\* Mutant of transaction: the events row stays when the transaction fails
transaction_no_rollback(committed, saved) ==
    IF committed /\ saved.ok THEN saved
    ELSE [ok |-> FALSE, id |-> 0, events |-> saved.events,
          event_nonces |-> event_nonces]

\* conn.transaction around the inserts of save_announcement: the rows are
\* kept when the closure returned Ok and the commit went through, else the
\* tables are as before
transaction(committed, saved) ==
    IF committed /\ saved.ok THEN saved
    ELSE [ok |-> FALSE, id |-> 0, events |-> events,
          event_nonces |-> event_nonces]

\* The reservations whose ids may still be inserted: made by a caller that
\* is alive and has not called save_announcement yet
Pending ==
    {c \in DOMAIN calls :
        /\ calls[c].fn = "get_next_nonce_indexes"
        /\ calls[c].ok
        /\ calls[c].id = 0}

\* The ids reservation c took from the counter
ReservedIds(c) == calls[c].current .. (calls[c].current + calls[c].num - 1)

\* The ids of the rows of event_nonces
StoredIds == {n.id : n \in event_nonces}

\* save_announcement by the caller of reservation c; committed = FALSE: the
\* connection, an insert or the commit failed
save_announcement_attempt(c, outcomes, committed) ==
    /\ c \in Returned
    /\ c \in Pending
    /\ calls[c].num > 0
    /\ Len(events) < MaxNonceEvents
    /\ LET saved == transaction(committed,
                        save_announcement([outcomes |-> outcomes],
                                          calls[c].indexes))
       IN  /\ events' = saved.events
           /\ event_nonces' = saved.event_nonces
           /\ calls' = [calls EXCEPT ![c].id = saved.id, ![c].ok = saved.ok]
    /\ UNCHANGED <<jobVars, event_jobs, current_index, runner>>

\* The process is started again: PostgresStorage::new reads the counter
\* from the table, and the callers of the old process are gone
PostgresStorage_new ==
    /\ Len(calls) < MaxCalls
    /\ current_index' = EventNonce_get_next_id(event_nonces)
    /\ calls' = Append([c \in DOMAIN calls |->
                            IF c \in Pending
                            THEN [calls[c] EXCEPT !.ok = FALSE]
                            ELSE calls[c]],
                       StorageCall("new", "done", 0,
                                   EventNonce_get_next_id(event_nonces),
                                   0, TRUE, FALSE))
    /\ UNCHANGED <<jobVars, events, event_nonces, event_jobs, runner>>

NonceNext ==
    \/ \E num \in 0..MaxNum : get_next_nonce_indexes(num)
    \/ \E c \in DOMAIN calls : get_next_nonce_indexes_return(c)
    \/ \E c \in DOMAIN calls, committed \in BOOLEAN :
            save_announcement_attempt(c, Outputs, committed)
    \/ PostgresStorage_new

NonceSpec == Init /\ [][NonceNext]_vars

\* ------------------------------------------------------ the Wasm runner
\* One call of download_and_run_wasm (wasm_handler.rs), step by step, with
\* the job parameters and the answer of the server drawn from bounded sets.
\* runner holds the call: where it is, its parameters, the response, the
\* temp dir and the file in it, the plugin and the two futures of the
\* select! in run_wasm.  wrote, removed, instantiated, called and cancelled
\* record what the call has done so far.  Errors of the file system and of
\* cancel_handle.cancel() are not modelled.

\* The characters of a checksum, and char::to_lowercase on them
HexChars == {"a", "A", "1"}

to_lowercase_char(c) == IF c = "A" THEN "a" ELSE c

\* String::to_lowercase
to_lowercase(s) == [k \in DOMAIN s |-> to_lowercase_char(s[k])]

\* params.checksum: strings of HexLen characters
Checksums == [1..HexLen -> HexChars]

\* Body lengths: empty, and around the limit
Lens == {0} \cup ((MAX_WASM_FILE_SIZE - MaxOver)..(MAX_WASM_FILE_SIZE + MaxOver))

\* response.bytes(): len bytes, id tells bodies of different content apart
Bodies == [len : Lens, id : 1..MaxBodies]

\* format!("{result:x}") of the Sha256 of the bytes: lowercase hex, one
\* digest per content
hex_result(bytes) ==
    [k \in 1..HexLen |-> IF (bytes.id + k) % 2 = 0 THEN "a" ELSE "1"]

\* The answer to http.get(url).send(): an error, or a response with its
\* status, its Content-Length header if any and its body
Responses ==
    [status : {200, 404},
     content_length : {None} \cup {Some(n) : n \in Lens},
     bytes : Bodies]

\* StatusCode::is_success
is_success(status) == status >= 200 /\ status < 300

\* Mutant of too_large: the limit itself is refused
too_large_at_limit(len) == len >= MAX_WASM_FILE_SIZE

\* len > MAX_WASM_FILE_SIZE
too_large(len) == len > MAX_WASM_FILE_SIZE

\* Mutant of checksum_differs: only the lengths are compared
checksum_differs_in_length(checksum, hex) == Len(checksum) # Len(hex)

\* job_params.checksum.to_lowercase() != hex_result
checksum_differs(checksum, hex) == to_lowercase(checksum) # hex

\* Mutant of sleep_ready: the sleep is ready at once
sleep_ready_at_once(elapsed, time) == elapsed >= 0

\* tokio::time::sleep(Duration::from_millis(job_params.time)) is ready
sleep_ready(elapsed, time) == elapsed >= time

\* What the guest call yields: its output, or the error of a trap
GuestResults ==
    {[ok |-> TRUE, val |-> o] : o \in Outputs} \cup {[ok |-> FALSE, val |-> "trap"]}

Err(msg) == [ok |-> FALSE, val |-> msg]

\* Mutant of Return: the temp dir is kept when the call returns
Return_keeps_temp_dir(r, result) ==
    [r EXCEPT !.pc = "returned", !.result = Some(result)]

\* The call returns: the result is handed back and temp_dir is dropped,
\* which deletes the directory and the file in it
Return(r, result) ==
    [r EXCEPT !.pc = "returned", !.result = Some(result),
              !.temp_dir = FALSE, !.file = "absent"]

\* download_and_run_wasm up to the answer of the server, with any
\* parameters and any answer: the url is parsed, which fails for a url that
\* is none, then the temp dir is made and the request is sent
http_get ==
    /\ runner = Idle
    /\ \E checksum \in Checksums, time \in 0..MaxMillis,
          response \in {None} \cup {Some(r) : r \in Responses},
          url_ok \in BOOLEAN :
        LET r == [pc |-> "response", checksum |-> checksum, time |-> time,
                  url_ok |-> url_ok,
                  response |-> IF url_ok THEN response ELSE None,
                  temp_dir |-> url_ok, file |-> "absent",
                  wrote |-> FALSE, removed |-> FALSE, instantiated |-> FALSE,
                  called |-> FALSE, cancelled |-> FALSE, fut |-> None,
                  elapsed |-> 0, result |-> None]
        IN  runner' = IF ~url_ok
                      THEN [r EXCEPT !.pc = "returned",
                                     !.result = Some(Err("bad url"))]
                      ELSE IF response = None
                      THEN Return(r, Err("error sending request"))
                      ELSE r
    /\ UNCHANGED <<jobVars, oracleVars, calls>>

\* The status and the declared length are checked, the file is created
check_response ==
    /\ runner.pc = "response"
    /\ LET response == Unwrap(runner.response)
           declared == IF response.content_length = None THEN 0
                       ELSE Unwrap(response.content_length)
       IN  runner' =
             IF ~is_success(response.status)
             THEN Return(runner, Err("Failed to download file: HTTP"))
             ELSE IF too_large(declared)
             THEN Return(runner, Err("File too large"))
             ELSE [runner EXCEPT !.pc = "bytes", !.file = "empty"]
    /\ UNCHANGED <<jobVars, oracleVars, calls>>

\* The body is read and its length checked
read_bytes ==
    /\ runner.pc = "bytes"
    /\ runner' =
         IF too_large(Unwrap(runner.response).bytes.len)
         THEN Return(runner, Err("File too large"))
         ELSE [runner EXCEPT !.pc = "checksum"]
    /\ UNCHANGED <<jobVars, oracleVars, calls>>

\* The digest is compared with the checksum: on a mismatch the file is
\* removed, otherwise the bytes are written to it
verify_checksum ==
    /\ runner.pc = "checksum"
    /\ runner' =
         IF checksum_differs(runner.checksum,
                             hex_result(Unwrap(runner.response).bytes))
         THEN Return([runner EXCEPT !.removed = TRUE, !.file = "absent"],
                     Err("Checksum mismatch"))
         ELSE [runner EXCEPT !.pc = "run_wasm", !.file = "written",
                             !.wrote = TRUE]
    /\ UNCHANGED <<jobVars, oracleVars, calls>>

\* run_wasm up to the select!: Plugin::new fails on a file that is no Wasm
\* module, otherwise the guest call is spawned and the sleep is made
run_wasm(valid) ==
    /\ runner.pc = "run_wasm"
    /\ runner' =
         IF ~valid
         THEN Return([runner EXCEPT !.instantiated = TRUE], Err("plugin"))
         ELSE [runner EXCEPT !.pc = "select", !.instantiated = TRUE,
                             !.called = TRUE, !.fut = None]
    /\ UNCHANGED <<jobVars, oracleVars, calls>>

\* The blocking task ends: plugin.call has returned with result
guest_returns(result) ==
    /\ runner.pc = "select"
    /\ runner.fut = None
    /\ runner' = [runner EXCEPT !.fut = Some(result)]
    /\ UNCHANGED <<jobVars, oracleVars, calls>>

\* A millisecond passes while the select! waits
millisecond ==
    /\ runner.pc = "select"
    /\ runner.elapsed < MaxMillis
    /\ runner' = [runner EXCEPT !.elapsed = @ + 1]
    /\ UNCHANGED <<jobVars, oracleVars, calls>>

\* select!, branch result = fut
select_fut ==
    /\ runner.pc = "select"
    /\ IsSome(runner.fut)
    /\ runner' = Return(runner, Unwrap(runner.fut))
    /\ UNCHANGED <<jobVars, oracleVars, calls>>

\* select!, branch _ = sleep
select_sleep ==
    /\ runner.pc = "select"
    /\ sleep_ready(runner.elapsed, runner.time)
    /\ runner' = Return([runner EXCEPT !.cancelled = TRUE], Err("Timeout"))
    /\ UNCHANGED <<jobVars, oracleVars, calls>>

WasmNext ==
    \/ http_get
    \/ check_response
    \/ read_bytes
    \/ verify_checksum
    \/ \E valid \in BOOLEAN : run_wasm(valid)
    \/ \E result \in GuestResults : guest_returns(result)
    \/ millisecond
    \/ select_fut
    \/ select_sleep

WasmSpec == Init /\ [][WasmNext]_vars


\* ------------------------------------------------------------------ claims
\* The runs the scheduler made of jobs row j
ScheduledRuns(j) == {w \in wasmRuns : w.by = "run_scheduled_job" /\ w.job = j}

\* The runs handle_invoice made for jobs row j
SettlementRuns(j) == {w \in wasmRuns : w.by = "handle_invoice" /\ w.job = j}

\* C1: every scheduled job is run by the scheduler at most once, whatever
\* the interleaving of rounds and run_scheduled_job tasks.
C1_ScheduledJobRunsAtMostOnce ==
    \A j \in DOMAIN jobs : Cardinality(ScheduledRuns(j)) <= 1

\* C2: however often the Settled update of a job's payment hash is
\* delivered, handle_invoice runs the Wasm for that job at most once (each
\* run sends one reply); a later settlement finds response_id set and does
\* nothing.
C2_SettlementIdempotent ==
    \A j \in DOMAIN jobs : Cardinality(SettlementRuns(j)) <= 1

\* C3: settlement handlers of one zap, concurrent or not, credit the balance
\* once and send one zap receipt.
C3_ZapCreditedOnce ==
    \A z \in zaps :
        /\ zapCredits[z.payment_hash] <= 1
        /\ Cardinality(Sends("ZapReceipt", z.payment_hash)) <= 1

\* A jobs row is funded when its invoice is settled; a row keyed by the
\* request id is inserted only after the deduction or the settlement.
Funded(j) ==
    jobs[j].payment_hash[1] = "inv" => invoices[jobs[j].payment_hash[2]].settled

\* C4: the Wasm has run for a job only if the job was funded; a pending
\* scheduled job with an unsettled invoice is never run by the scheduler.
C4_FundedBeforeRun ==
    \A w \in wasmRuns : w.job # 0 => Funded(w.job)

\* C5: the stored balance is the sum of the deltas of the updates that
\* succeeded (rows start at 0), for every interleaving.
C5_BalanceIsSumOfDeltas ==
    \A n \in Npubs : IsSome(balances[n]) => Unwrap(balances[n]) = ledger[n]


\* The zap row a settlement task is about to mark paid
ZapOf(t) == CHOOSE z \in zaps : z.payment_hash = invTasks[t].payment_hash

\* Step of task t in which update_balance is called with a delta that takes
\* the balance it read below zero
NegativeCredit(t) ==
    /\ invTasks[t].pc = "zap"
    /\ invTasks'[t].pc # "zap"
    /\ IsSome(balances[ZapOf(t).npub])
    /\ Unwrap(balances[ZapOf(t).npub]) + ZapOf(t).amount_msats < 0

NegativeDebit(t) ==
    /\ evTasks[t].pc = "deduct"
    /\ evTasks'[t].pc # "deduct"
    /\ evTasks[t].balance_msats - evTasks[t].request.time * Price < 0

\* C6: every stored balance is >= 0, and an update_balance that would take
\* the balance below zero fails with "Insufficient balance" and leaves the
\* stored balances as they were.
C6_BalanceNeverNegative ==
    /\ [](\A n \in Npubs : IsSome(balances[n]) => Unwrap(balances[n]) >= 0)
    /\ [][/\ \A t \in DOMAIN invTasks : NegativeCredit(t) =>
                /\ balances' = balances
                /\ invTasks'[t].pc = "failed"
                /\ invTasks'[t].err = "Insufficient balance"
          /\ \A t \in DOMAIN evTasks : NegativeDebit(t) =>
                /\ balances' = balances
                /\ evTasks'[t].pc = "failed"
                /\ evTasks'[t].err = "Insufficient balance"]_vars

\* C6 witness: a settlement task's update_balance was refused, a balance row
\* exists and is not negative.
C6_Witness ==
    /\ \E t \in DOMAIN invTasks :
            /\ invTasks[t].pc = "failed"
            /\ invTasks[t].err = "Insufficient balance"
    /\ \E n \in Npubs : IsSome(balances[n]) /\ Unwrap(balances[n]) >= 0

\* Step in which handle_event is spawned for the request `event` in slot t
Spawned(t) == evTasks[t].pc = "idle" /\ evTasks'[t].pc # "idle"

\* C7: for a request with params.time > 600000 handle_event sends exactly
\* one JobFeedback with status Error and returns; no jobs row, no invoice,
\* no balance change and no Wasm run come of it.
C7_TimeLimit ==
    /\ [](/\ \A j \in DOMAIN jobs : jobs[j].request.time <= 600000
          /\ \A w \in wasmRuns : w.request.time <= 600000)
    /\ [][\A t \in DOMAIN evTasks :
            (Spawned(t) /\ evTasks'[t].request.time > 600000) =>
                /\ evTasks'[t].pc = "done"
                /\ \E e \in published' :
                    /\ e \notin published
                    /\ published' = published \cup {e}
                    /\ e.kind = "FeedbackError"
                    /\ e.ref = RequestId(evTasks'[t].request)
                /\ UNCHANGED <<jobs, invoices, balances, wasmRuns>>]_vars

\* C7 witness: the handler of a request over the limit has returned and its
\* Error feedback is published.
C7_Witness ==
    \E t \in DOMAIN evTasks :
        /\ evTasks[t].pc = "done"
        /\ evTasks[t].request.time > 600000
        /\ Sends("FeedbackError", RequestId(evTasks[t].request)) # {}

\* Step of task t that takes the arm with enough balance for a request
\* without schedule, the stored balance being enough
BalancePaidStep(t) ==
    /\ evTasks[t].pc = "deduct"
    /\ evTasks'[t].pc # "deduct"
    /\ evTasks[t].request.schedule = None
    /\ Unwrap(balances[evTasks[t].request.pubkey]) >= evTasks[t].request.time * Price

\* C8: a request without schedule whose author's balance covers value_msat:
\* the balance goes down by exactly value_msat, the Wasm runs once, one reply
\* is sent and one completed jobs row is inserted with response_id the
\* reply's id and payment_hash the request id.
C8_BalancePaidRun ==
    [][\A t \in DOMAIN evTasks : BalancePaidStep(t) =>
        LET r == evTasks[t].request
        IN  /\ Unwrap(balances'[r.pubkey]) = Unwrap(balances[r.pubkey]) - r.time * Price
            /\ Cardinality(wasmRuns' \ wasmRuns) = 1
            /\ \E e \in published' :
                /\ e \notin published
                /\ published' = published \cup {e}
                /\ e.kind \in {"JobResult", "FeedbackError"}
                /\ e.ref = RequestId(r)
                /\ jobs' = Append(jobs,
                        [payment_hash |-> RequestId(r), request |-> r,
                         response_id |-> Some(e), scheduled_at |-> None])]_vars

\* Step in which handle_event is spawned for a request within the time limit
\* whose author has no balance row or a balance below value_msat
InvoicePathStep(t) ==
    /\ Spawned(t)
    /\ evTasks'[t].request.time <= 600000
    /\ LET r == evTasks'[t].request
       IN  \/ balances[r.pubkey] = None
           \/ Unwrap(balances[r.pubkey]) < r.time * Price

SettlePendingStep(t) ==
    /\ invTasks[t].pc = "job"
    /\ invTasks'[t].pc # "job"
    /\ jobs[invTasks[t].job].response_id = None
    /\ jobs[invTasks[t].job].scheduled_at = None

\* C10: a Settled update for a pending job with response_id null and
\* scheduled_at null makes handle_invoice run the Wasm for the stored
\* request, send the reply and set the job's response_id to the reply's id.
C10_SettledJobRuns ==
    [][\A t \in DOMAIN invTasks : SettlePendingStep(t) =>
        LET id == invTasks[t].job
        IN  /\ \E w \in wasmRuns' :
                /\ wasmRuns' = wasmRuns \cup {w}
                /\ w \notin wasmRuns
                /\ w.request = jobs[id].request
                /\ w.job = id
            /\ \E e \in published' :
                /\ e \notin published
                /\ published' = published \cup {e}
                /\ e.kind \in {"JobResult", "FeedbackError"}
                /\ e.ref = RequestId(jobs[id].request)
                /\ jobs' = [jobs EXCEPT ![id].response_id = Some(e)]
            /\ invTasks'[t].pc = "done"]_vars

\* C10 witness: an invoice-backed jobs row without schedule whose
\* response_id is the id of a published reply of a run handle_invoice made.
C10_Witness ==
    \E j \in DOMAIN jobs :
        /\ jobs[j].payment_hash[1] = "inv"
        /\ jobs[j].scheduled_at = None
        /\ IsSome(jobs[j].response_id)
        /\ Unwrap(jobs[j].response_id) \in published
        /\ SettlementRuns(j) # {}

\* Step of settlement task t for a jobs row whose scheduled_at is set and in
\* the future
SettleFutureStep(t) ==
    /\ invTasks[t].pc = "job"
    /\ invTasks'[t].pc # "job"
    /\ IsSome(jobs[invTasks[t].job].scheduled_at)
    /\ Unwrap(jobs[invTasks[t].job].scheduled_at) > now

\* The runs the scheduler made for request r
ScheduledRunsOf(r) ==
    {w \in wasmRuns : w.by = "run_scheduled_job" /\ w.request = r}

\* C11: a Settled update for a job whose scheduled_at is set and in the
\* future makes handle_invoice do nothing: no jobs row, no oracle event, no
\* EventJob row, no published event and no Wasm run come of it; the
\* scheduler then dispatches the scheduled request once.
C11_ScheduledSettlementDoesNothing ==
    /\ [][\A t \in DOMAIN invTasks : SettleFutureStep(t) =>
            UNCHANGED <<jobs, events, event_nonces, event_jobs, published,
                        wasmRuns>>]_vars
    /\ [](\A j \in DOMAIN jobs :
            (jobs[j].payment_hash[1] = "inv" /\ IsSome(jobs[j].scheduled_at))
                => Cardinality(ScheduledRunsOf(jobs[j].request)) <= 1)

\* C12: once a jobs row's response_id is non-null, no step of request
\* handling, settlement or scheduler writes or changes it.
C12_ResponseIdSetOnce ==
    [][\A j \in DOMAIN jobs :
        IsSome(jobs[j].response_id) =>
            jobs'[j].response_id = jobs[j].response_id]_vars

OracleScheduleStep(t) ==
    /\ evTasks[t].pc = "deduct"
    /\ evTasks'[t].pc = "done"
    /\ IsSome(evTasks[t].request.schedule)
    /\ IsSome(Unwrap(evTasks[t].request.schedule).expected_outputs)

\* C14: for a balance-paid request with schedule and expected_outputs the
\* handling inserts one jobs row with scheduled_at = run_date and one oracle
\* event linked to it by an EventJob row, and the one event it broadcasts is
\* the announcement event whose id is stored as announcement_event_id; no
\* JobResult of a scheduled request is published before its run_date.
C14_ScheduledWithOutcomes ==
    /\ [][\A t \in DOMAIN evTasks : OracleScheduleStep(t) =>
            LET r == evTasks[t].request
                id == Len(events) + 1
            IN  /\ jobs' = Append(jobs,
                        [payment_hash |-> RequestId(r), request |-> r,
                         response_id |-> None,
                         scheduled_at |-> Some(Unwrap(r.schedule).run_date)])
                /\ Len(events') = id
                /\ event_jobs' = event_jobs \cup
                        {[job_id |-> Len(jobs) + 1, event_id |-> id]}
                /\ \E e \in published' :
                        /\ e \notin published
                        /\ published' = published \cup {e}
                        /\ events'[id].announcement_event_id = Some(e)]_vars
    /\ [](\A e \in published :
            (e.kind = "JobResult" /\ IsSome(e.ref[2].schedule))
                => now >= Unwrap(e.ref[2].schedule).run_date)

\* The finish of run_scheduled_job task: it is pending and gone in the next
\* state
Finishes(task) ==
    /\ task \in schedTasks
    /\ task.pc = "finish"
    /\ task \notin schedTasks'

\* An EventJob links the task's job to an oracle event that has an
\* announcement_event_id and the Wasm output is one of its outcomes
Attestable(task) ==
    \E ej \in event_jobs :
        /\ ej.job_id = task.job
        /\ IsSome(events[ej.event_id].announcement_event_id)
        /\ Unwrap(task.result).ok
        /\ Unwrap(task.result).val \in events[ej.event_id].outcomes

\* The step signs the Wasm output of the task and publishes the attestation
Attests(task) ==
    \E ej \in event_jobs :
        /\ ej.job_id = task.job
        /\ \E n \in event_nonces' :
                /\ n.event_id = ej.event_id
                /\ n.outcome = Some(Unwrap(task.result).val)
                /\ IsSome(n.signature)
        /\ \E e \in published' :
                /\ e \notin published
                /\ e.kind = "Attestation"
                /\ e.ref = <<"oracle", ej.event_id>>

\* C15: when a scheduled job completes, an attestation is signed and
\* published if and only if an EventJob links the job to an oracle event
\* with an announcement_event_id and the Wasm output is one of the declared
\* outcomes, for plaintext and encrypted requests alike; otherwise the step
\* publishes nothing and signs nothing.
C15_AttestationIffOutcome ==
    [][\A task \in schedTasks : Finishes(task) =>
        IF Attestable(task)
        THEN Attests(task)
        ELSE UNCHANGED <<published, event_nonces, events>>]_vars

\* C16: an oracle event is attested once: save_signatures for an event whose
\* nonces carry an outcome and a signature fails and leaves the stored
\* outcomes and signatures as they are, whatever the order of the calls.
C16_SignedOnce ==
    /\ [][\A n \in event_nonces :
            (IsSome(n.outcome) /\ IsSome(n.signature)) => n \in event_nonces']_vars
    /\ [](\A c \in DOMAIN calls :
            (calls[c].fn = "save_signatures" /\ calls[c].signed_before)
                => ~calls[c].ok)

\* The list of indexes call c of get_next_nonce_indexes returned is strictly
\* increasing and contiguous
Contiguous(c) ==
    \A k \in 1..(Len(calls[c].indexes) - 1) :
        calls[c].indexes[k + 1] = calls[c].indexes[k] + 1

\* The indexes of a list, as a set
Range(f) == {f[k] : k \in DOMAIN f}

\* C17: the lists returned by calls get_next_nonce_indexes(a) and
\* get_next_nonce_indexes(b) on clones of one storage, interleaved in any
\* way, are each strictly increasing and contiguous, have length a resp. b,
\* and share no index (a, b <= MaxNum, the counter far from the end of u32).
C17_NonceIndexesDisjoint ==
    /\ \A c \in Returned :
            /\ Len(calls[c].indexes) = calls[c].num
            /\ Contiguous(c)
    /\ \A c, d \in Returned :
            c # d => Range(calls[c].indexes) \cap Range(calls[d].indexes) = {}

\* C17 witness: two calls for two indexes each have returned, the one that
\* did its fetch_add first returning last.
C17_Witness ==
    \E c, d \in Returned :
        /\ c < d
        /\ calls[c].seq > calls[d].seq
        /\ calls[c].num = 2
        /\ calls[d].num = 2

\* A call of download_and_run_wasm that got an answer has returned
Fetched == runner.pc = "returned" /\ IsSome(runner.response)

\* The Content-Length the answer declares, 0 if it declares none
Declared ==
    IF Unwrap(runner.response).content_length = None THEN 0
    ELSE Unwrap(Unwrap(runner.response).content_length)

\* The sha256 of the body, in lowercase hex, is not the lowercased checksum
Sha256Differs ==
    to_lowercase(runner.checksum) # hex_result(Unwrap(runner.response).bytes)

\* The call returned a checksum-mismatch error, never instantiated or called
\* the guest, never wrote the bytes to the file, and removed the file
MismatchRefused ==
    /\ runner.result = Some(Err("Checksum mismatch"))
    /\ ~runner.instantiated
    /\ ~runner.called
    /\ ~runner.wrote
    /\ runner.removed
    /\ runner.file = "absent"

\* C18 as stated: for every fetch whose sha256 differs from params.checksum
\* (compared as lowercase hex), download_and_run_wasm returns a
\* checksum-mismatch error, never instantiates or calls the guest, never
\* writes the downloaded bytes to the file, and the temp file is removed.
C18_EveryMismatchRefused ==
    (Fetched /\ Sha256Differs) => MismatchRefused

\* C18 amended: the same for every fetch answered with a success status
\* whose declared content length and body length are at most
\* MAX_WASM_FILE_SIZE; the other fetches fail before the checksum is looked
\* at.
C18_MismatchRefused ==
    (/\ Fetched
     /\ is_success(Unwrap(runner.response).status)
     /\ Declared <= MAX_WASM_FILE_SIZE
     /\ Unwrap(runner.response).bytes.len <= MAX_WASM_FILE_SIZE
     /\ Sha256Differs) => MismatchRefused

\* C18 witness: a body of the limit's size, fetched with success, whose
\* checksum is written in upper case and is not the digest, was refused.
C18_Witness ==
    /\ Fetched
    /\ is_success(Unwrap(runner.response).status)
    /\ Unwrap(runner.response).bytes.len = MAX_WASM_FILE_SIZE
    /\ runner.checksum = <<"A", "A">>
    /\ Sha256Differs
    /\ MismatchRefused

\* The declared content length or the body length exceeds the limit
OverLimit ==
    \/ Declared > MAX_WASM_FILE_SIZE
    \/ Unwrap(runner.response).bytes.len > MAX_WASM_FILE_SIZE

\* The call returned a too-large error, the guest never ran and neither
\* the file nor the temp dir is left
TooLargeRefused ==
    /\ runner.result = Some(Err("File too large"))
    /\ ~runner.instantiated
    /\ ~runner.called
    /\ runner.file = "absent"
    /\ ~runner.temp_dir

\* A body of exactly the limit, with no larger length declared, passes the
\* size checks
ExactAccepted ==
    (/\ Unwrap(runner.response).bytes.len = MAX_WASM_FILE_SIZE
     /\ Declared <= MAX_WASM_FILE_SIZE)
        => runner.result # Some(Err("File too large"))

\* C19 as stated: for every fetch whose declared content_length or body
\* length exceeds 25,000,000 bytes, download_and_run_wasm returns a
\* too-large error without running the guest and leaves nothing on disk
\* after it returns; a body of exactly 25,000,000 bytes is accepted.
C19_EveryOverLimitRefused ==
    Fetched => /\ OverLimit => TooLargeRefused
               /\ ExactAccepted

\* C19 amended: the same for every fetch answered with a success status; a
\* fetch answered with another status fails with the download error
\* whatever its size, and leaves nothing on disk either.
C19_OverLimitRefused ==
    /\ (Fetched /\ is_success(Unwrap(runner.response).status))
            => /\ OverLimit => TooLargeRefused
               /\ ExactAccepted
    /\ (Fetched /\ ~is_success(Unwrap(runner.response).status))
            => /\ runner.result = Some(Err("Failed to download file: HTTP"))
               /\ runner.file = "absent"
               /\ ~runner.temp_dir

\* C19 witness: a body one byte over the limit, fetched with success and
\* with no Content-Length declared, was refused as too large.
C19_Witness ==
    /\ Fetched
    /\ is_success(Unwrap(runner.response).status)
    /\ Unwrap(runner.response).content_length = None
    /\ Unwrap(runner.response).bytes.len = MAX_WASM_FILE_SIZE + 1
    /\ TooLargeRefused

\* C20: run_wasm races the guest call against a timer of params.time
\* milliseconds.  When the select! is decided: if the timer has fired and
\* the guest has not returned, the cancel handle is signalled and the result
\* is the error "Timeout"; if the guest has returned and the timer has not
\* fired, the guest's output or trap error is the result and no cancellation
\* is issued; when both are ready either branch is taken, and a cancellation
\* is issued exactly with the result "Timeout".
C20_TimerRace ==
    [][(runner.pc = "select" /\ runner'.pc = "returned") =>
        /\ (runner.elapsed >= runner.time /\ runner.fut = None)
                => /\ runner'.cancelled
                   /\ runner'.result = Some(Err("Timeout"))
        /\ (IsSome(runner.fut) /\ runner.elapsed < runner.time)
                => /\ ~runner'.cancelled
                   /\ runner'.result = runner.fut
        /\ runner'.cancelled <=> runner'.result = Some(Err("Timeout"))
        /\ runner'.result \in {runner.fut, Some(Err("Timeout"))}]_vars

\* C20 witness: the timer of MaxMillis milliseconds fired before the guest
\* returned, the call was cancelled and returned "Timeout".
C20_Witness ==
    /\ runner.pc = "returned"
    /\ runner.called
    /\ runner.time = MaxMillis
    /\ runner.elapsed = MaxMillis
    /\ runner.fut = None
    /\ runner.cancelled
    /\ runner.result = Some(Err("Timeout"))

\* C21: on every exit path of download_and_run_wasm (bad URL, HTTP error,
\* too large, checksum mismatch, sandbox init failure, guest trap, timeout,
\* success) the temporary Wasm file and its directory no longer exist once
\* the call has returned.
C21_TempReclaimed ==
    runner.pc = "returned" => (~runner.temp_dir /\ runner.file = "absent")

\* C21 witness: a call that wrote the file and ran the guest to its output
\* has returned, and neither the file nor the directory is left.
C21_Witness ==
    /\ runner.pc = "returned"
    /\ runner.wrote
    /\ runner.result = Some([ok |-> TRUE, val |-> "x"])
    /\ ~runner.temp_dir
    /\ runner.file = "absent"

\* Step in which task t of handle_event, on the arm with enough balance,
\* gets a failure from the Wasm runner
FailedRunOfEvent(t) ==
    /\ evTasks[t].pc = "deduct"
    /\ evTasks'[t].pc \in {"done", "failed"}
    /\ "result" \in DOMAIN evTasks'[t]
    /\ ~evTasks'[t].result.ok

\* Step in which task t of handle_invoice, for a settled job, gets a failure
\* from the Wasm runner
FailedRunOfInvoice(t) ==
    /\ invTasks[t].pc = "job"
    /\ invTasks'[t].pc \in {"done", "failed"}
    /\ "result" \in DOMAIN invTasks'[t]
    /\ ~invTasks'[t].result.ok

\* The step sends one JobFeedback with status Error for request r that
\* carries the failure message msg, and nothing else
ErrorFeedback(e, r, msg) ==
    /\ e \notin published
    /\ published' = published \cup {e}
    /\ e.kind = "FeedbackError"
    /\ e.ref = RequestId(r)
    /\ e.content = msg

\* C22: a failure of the Wasm runner (Timeout included) for a funded job is
\* not an error of the handler: a JobFeedback with status Error carrying the
\* failure message is published, the balance of a balance-paid job stays at
\* the value debited by value_msat, and the job is persisted as completed
\* with response_id the id of the feedback event.
C22_FailedRunIsCharged ==
    /\ [][\A t \in DOMAIN evTasks : FailedRunOfEvent(t) =>
            LET r == evTasks[t].request
            IN  /\ evTasks'[t].pc = "done"
                /\ balances'[r.pubkey] =
                        Some(evTasks[t].balance_msats - value_msat(r))
                /\ \E e \in published' :
                    /\ ErrorFeedback(e, r, evTasks'[t].result.val)
                    /\ jobs' = Append(jobs, Job_create_completed(r, e))]_vars
    /\ [][\A t \in DOMAIN invTasks : FailedRunOfInvoice(t) =>
            LET id == invTasks[t].job
                r == jobs[id].request
            IN  /\ invTasks'[t].pc = "done"
                /\ UNCHANGED balances
                /\ \E e \in published' :
                    /\ ErrorFeedback(e, r, invTasks'[t].result.val)
                    /\ jobs' = [jobs EXCEPT ![id].response_id = Some(e)]]_vars

\* C22 witness: a balance-paid request whose run timed out is done, its
\* job row is completed with the Error feedback that carries the message,
\* and the author's balance is below what was credited
C22_Witness ==
    \E t \in DOMAIN evTasks : \E j \in DOMAIN jobs :
        /\ evTasks[t].pc = "done"
        /\ "result" \in DOMAIN evTasks[t]
        /\ evTasks[t].result = [ok |-> FALSE, val |-> "Timeout"]
        /\ jobs[j].request = evTasks[t].request
        /\ IsSome(jobs[j].response_id)
        /\ Unwrap(jobs[j].response_id).kind = "FeedbackError"
        /\ Unwrap(jobs[j].response_id).content = "Timeout"
        /\ Unwrap(jobs[j].response_id) \in published
        /\ jobs[j].scheduled_at = None

\* Reply e is the JobResult of request r for the guest output out: it has
\* the Encrypted tag exactly when r has it; for a plaintext request its
\* content is out; for an encrypted one its content is a ciphertext that
\* the author's secret key with the service's public key decrypts to out,
\* and that no other user's key decrypts
Seals(e, r, out) ==
    /\ e.kind = "JobResult"
    /\ e.ref = RequestId(r)
    /\ e.encrypted <=> r.encrypted
    /\ ~r.encrypted => e.content = out
    /\ r.encrypted =>
        /\ e.content # out
        /\ nip04_decrypt(SecretKey(r.pubkey), ServiceKey, e.content) = Some(out)
        /\ \A p \in Npubs \ {r.pubkey} :
                nip04_decrypt(SecretKey(p), ServiceKey, e.content) = None

\* The step publishes the JobResult of request r for output out, and no
\* other JobResult
SendsResult(r, out) ==
    /\ \E e \in published' : Seals(e, r, out)
    /\ \A e \in published' \ published : e.kind = "JobResult" => Seals(e, r, out)

\* C23: the content of a JobResult is encrypted to the author's key and the
\* reply carries the Encrypted tag if and only if the request carried it;
\* for a plaintext request the content is exactly the guest's output, and
\* decrypting an encrypted reply yields exactly the guest's output.
C23_ResultSealedIffRequested ==
    /\ [][\A t \in DOMAIN evTasks :
            (/\ evTasks[t].pc = "deduct"
             /\ "result" \in DOMAIN evTasks'[t]
             /\ evTasks'[t].result.ok)
            => SendsResult(evTasks[t].request, evTasks'[t].result.val)]_vars
    /\ [][\A t \in DOMAIN invTasks :
            (/\ invTasks[t].pc = "job"
             /\ "result" \in DOMAIN invTasks'[t]
             /\ invTasks'[t].result.ok)
            => SendsResult(jobs[invTasks[t].job].request,
                           invTasks'[t].result.val)]_vars
    /\ [][\A task \in schedTasks' \ schedTasks :
            (/\ task.pc = "sent"
             /\ Unwrap(task.result).ok)
            => /\ SendsResult(jobs[task.job].request, Unwrap(task.result).val)
               /\ Seals(Unwrap(task.event_id), jobs[task.job].request,
                        Unwrap(task.result).val)]_vars

\* C23 witness: the scheduler has sent the result "x" of an encrypted
\* request as a tagged ciphertext that its author decrypts to "x"
C23_Witness ==
    \E task \in schedTasks :
        /\ task.pc = "finish"
        /\ jobs[task.job].request.encrypted
        /\ task.result = Some([ok |-> TRUE, val |-> "x"])
        /\ Unwrap(task.event_id) \in published
        /\ Unwrap(task.event_id).encrypted
        /\ Unwrap(task.event_id).content # "x"
        /\ nip04_decrypt(SecretKey(jobs[task.job].request.pubkey), ServiceKey,
                         Unwrap(task.event_id).content) = Some("x")

\* Task t of handle_event has returned
HasReturned(t) == evTasks[t].pc \in {"done", "failed"}

\* C24: handling one request (handle_event) publishes at most one outbound
\* event on every path (the over-time error, the invoice path, the
\* balance-paid immediate path and the balance-paid scheduled path): a step
\* of a task sends at most one event, the task returns in the step that
\* sends it, and a task that has returned does nothing more.
C24_AtMostOneEventPerRequest ==
    [][\A t \in DOMAIN evTasks :
        /\ evTasks'[t] # evTasks[t] =>
            /\ Cardinality(published' \ published) <= 1
            /\ published' # published => evTasks'[t].pc \in {"done", "failed"}
        /\ HasReturned(t) => evTasks'[t] = evTasks[t]]_vars

\* C24 witness: a task has returned on the balance-paid immediate path and
\* the only event that refers to its request is the result it sent
C24_Witness ==
    \E t \in DOMAIN evTasks :
        /\ HasReturned(t)
        /\ "result" \in DOMAIN evTasks[t]
        /\ evTasks[t].result.ok
        /\ \E e \in published :
            /\ Seals(e, evTasks[t].request, evTasks[t].result.val)
            /\ {f \in published : f.ref = RequestId(evTasks[t].request)} = {e}

\* get_job_params fails on request event
BadRequest(event) == IsSome(get_job_params(event))

\* C25: a request with the Encrypted tag that has no lowercase p tag, or
\* whose p tag is not the service's public key, or a request without a
\* valid i tag (length 2, or length 3 with third element "text"), makes
\* get_job_params fail, and handle_event then publishes nothing, creates no
\* job row or invoice and changes no balance.
C25_BadRequestDoesNothing ==
    /\ \A event \in Requests \cup OddRequests :
            (\/ event.encrypted /\ first_p_tag(event.p_tags) = None
             \/ event.encrypted /\ first_p_tag(event.p_tags) \notin {None, Some(ServiceKey)}
             \/ \A k \in DOMAIN event.i_tags :
                    ~(\/ event.i_tags[k].len = 2
                      \/ event.i_tags[k].len = 3 /\ event.i_tags[k].third = "text"))
            => BadRequest(event)
    /\ [](\A t \in DOMAIN evTasks :
            (evTasks[t].pc # "idle" /\ BadRequest(evTasks[t].request))
            => evTasks[t].pc = "failed")
    /\ [][\A t \in DOMAIN evTasks :
            (evTasks'[t] # evTasks[t] /\ BadRequest(evTasks'[t].request))
            => UNCHANGED <<published, jobs, invoices, balances, ledger, zaps,
                           wasmRuns, oracleVars>>]_vars

\* C25 witness: an encrypted request whose first lowercase p tag is another
\* key has been refused and nothing has been sent or stored
C25_Witness ==
    \E t \in DOMAIN evTasks :
        /\ evTasks[t].pc = "failed"
        /\ evTasks[t].request.encrypted
        /\ first_p_tag(evTasks[t].request.p_tags) = Some("other")
        /\ evTasks[t].err = "Params are not encrypted to us!"
        /\ published = {}
        /\ jobs = <<>>
        /\ invoices = <<>>

\* Oracle event id has its scheduled job: an event_jobs row that links it to
\* a jobs row with a schedule
HasScheduledJob(id) ==
    \E ej \in event_jobs :
        /\ ej.event_id = id
        /\ ej.job_id \in DOMAIN jobs
        /\ IsSome(jobs[ej.job_id].scheduled_at)

\* C26: the oracle event row and the scheduled job with its EventJob link
\* are created atomically: in every reachable state, also after a failure
\* of a step of handle_job_request, an oracle event created for a scheduled
\* request exists if and only if its jobs row and event_jobs row exist.
C26_OracleEventIffJob ==
    /\ \A id \in DOMAIN events : HasScheduledJob(id)
    /\ \A ej \in event_jobs :
        /\ ej.event_id \in DOMAIN events
        /\ ej.job_id \in DOMAIN jobs

\* The ids of pending reservation c are not in the table and not in another
\* pending reservation
Fresh(c) ==
    /\ ReservedIds(c) \cap StoredIds = {}
    /\ \A d \in Pending \ {c} : ReservedIds(c) \cap ReservedIds(d) = {}

\* C27 as stated: nonce ids stored in event_nonces never collide: across
\* reservations, insertions that fail after reserving and restarts that
\* reseed the counter from max(event_nonces.id) + 1 (0 when empty), every
\* inserted nonce row gets an id not used by an existing row and larger
\* than every id inserted before it (the rows of an earlier event were
\* inserted before those of a later one).
C27_InsertedIdsIncrease ==
    /\ \A c \in Pending : Fresh(c)
    /\ \A n, m \in event_nonces : m.event_id < n.event_id => m.id < n.id

\* C27 amended: nonce ids never collide, and ids increase in the order of
\* reservation: the ids of a pending reservation are in no row and in no
\* other pending reservation, and a reservation takes ids larger than every
\* id stored when it is made and than every id of a pending reservation.
C27_NeverCollide ==
    /\ [](\A c \in Pending : Fresh(c))
    /\ [][\A c \in DOMAIN calls' \ DOMAIN calls :
            calls'[c].fn = "get_next_nonce_indexes" =>
                /\ \A i \in StoredIds : i < calls'[c].current
                /\ \A d \in Pending : \A i \in ReservedIds(d) :
                        i < calls'[c].current]_vars
    /\ [][\A n \in event_nonces' \ event_nonces : n.id \notin StoredIds]_vars

\* C27 witness: an insertion failed and leaked id 0, the process was
\* started again, and a later reservation got id 0 and stored it
C27_Witness ==
    \E a, r, b \in DOMAIN calls :
        /\ a < r /\ r < b
        /\ calls[a].fn = "get_next_nonce_indexes"
        /\ calls[a].indexes = <<0>> /\ ~calls[a].ok
        /\ calls[r].fn = "new" /\ calls[r].current = 0
        /\ calls[b].fn = "get_next_nonce_indexes"
        /\ calls[b].indexes = <<0>> /\ calls[b].id = 1
        /\ StoredIds = {0}

\* The rows of event_nonces of event id
NoncesOf(id) == {n \in event_nonces : n.event_id = id}

\* rows are the rows of event id for reservation c: one row per reserved
\* id, with index 0..n-1 in the order of the ids
RowsOfReservation(rows, id, c) ==
    /\ {n.id : n \in rows} = ReservedIds(c)
    /\ Cardinality(rows) = calls[c].num
    /\ \A n \in rows :
        /\ n.event_id = id
        /\ n.index = n.id - calls[c].current

\* C28: save_announcement inserts the event row and all of its nonce rows
\* all-or-nothing, and the nonce rows of one event have index values 0..n-1
\* in the order of the reserved ids, with ids contiguous within the event.
C28_AnnouncementAllOrNothing ==
    /\ [][\A c \in Pending \cap Returned : calls'[c] # calls[c] =>
            \/ /\ calls'[c].ok
               /\ Len(events') = Len(events) + 1
               /\ events' = Append(events, events'[Len(events')])
               /\ calls'[c].id = Len(events')
               /\ event_nonces \subseteq event_nonces'
               /\ RowsOfReservation(event_nonces' \ event_nonces,
                                    Len(events'), c)
            \/ /\ ~calls'[c].ok
               /\ UNCHANGED <<events, event_nonces>>]_vars
    /\ [](\A id \in DOMAIN events :
            LET rows == NoncesOf(id)
                n == Cardinality(rows)
            IN  /\ n > 0
                /\ {r.index : r \in rows} = 0..(n - 1)
                /\ \A r, q \in rows : r.id - q.id = r.index - q.index)

\* C28 witness: one insertion has failed and stored nothing, and an event
\* with two nonce rows is stored with ids 2, 3 and index 0, 1
C28_Witness ==
    /\ \E c \in DOMAIN calls :
            /\ calls[c].fn = "get_next_nonce_indexes"
            /\ calls[c].indexes = <<0, 1>>
            /\ ~calls[c].ok
    /\ Len(events) = 1
    /\ {<<n.id, n.index>> : n \in NoncesOf(1)} = {<<2, 0>>, <<3, 1>>}

\* The zap row of payment hash h, as the table holds it in this state
ZapRow(h) == CHOOSE z \in zaps : z.payment_hash = h

\* C29: zap bookkeeping is atomic: every zap row has a balance row for its
\* recipient from the moment it is created (create_zap), and in every
\* reachable state a zap's note_id is non-null if and only if its
\* amount_msats has been credited to that balance, also when mark_zap_paid
\* fails part-way.
C29_ZapBookkeepingAtomic ==
    /\ [](\A z \in zaps :
            /\ IsSome(balances[z.npub])
            /\ IsSome(z.note_id) <=> zapCredits[z.payment_hash] >= 1)
    /\ [][\A z \in zaps :
            (z.note_id = None /\ IsSome(ZapRow(z.payment_hash)'.note_id))
            => /\ balances'[z.npub] =
                    Some(saturating_add(Unwrap(balances[z.npub]), z.amount_msats))
               /\ zapCredits'[z.payment_hash] = 1]_vars
    /\ [][\A t \in DOMAIN invTasks :
            (invTasks[t].pc = "zap" /\ invTasks'[t].pc = "failed")
            => UNCHANGED <<zaps, balances, zapCredits>>]_vars

\* C29 witness: one zap is paid, with its note id stored and its 3 msat in
\* the balance of its recipient
C29_Witness ==
    \E z \in zaps :
        /\ IsSome(z.note_id)
        /\ z.amount_msats = 3
        /\ zapCredits[z.payment_hash] = 1
        /\ balances[z.npub] = Some(3)

\* C30: the active_jobs mutex is held only across the membership check and
\* the insert: no task holds it while it waits for a storage connection, a
\* storage write, an oracle signing call or a relay publish; a step of a
\* task that holds the lock writes no table and sends no event.
C30_LockHeldOnlyForTheSet ==
    [][\A task \in schedTasks :
        (HoldsLock(task) /\ task \notin schedTasks')
        => UNCHANGED <<jobs, events, event_nonces, published>>]_vars

\* Jobs row j has been run by the scheduler
Executed(j) == \E run \in wasmRuns : run.job = j /\ run.by = "run_scheduled_job"

\* C31: on completion of a scheduled job the response_id is persisted
\* before the lease is released: there is no reachable state in which job j
\* is absent from the active set, has been executed and still has
\* response_id null, also when persisting the response_id fails.
C31_ResponseIdBeforeRelease ==
    \A j \in DOMAIN jobs :
        ~(j \notin active /\ Executed(j) /\ jobs[j].response_id = None)

\* C31, the state that lasts: the same with no run_scheduled_job task of j
\* left, that is after the task has returned
C31_ReleasedWithoutResponseId ==
    \A j \in DOMAIN jobs :
        ~(/\ j \notin active
          /\ Executed(j)
          /\ jobs[j].response_id = None
          /\ \A task \in schedTasks : task.job # j)

\* C32: the relay event id of an announcement (resp. attestation) is
\* attached to the oracle event only after that event has been broadcast:
\* in every reachable state a non-null announcement_event_id (resp.
\* attestation_event_id) is the id of an event that was published, also
\* when the publish step fails.
C32_AttachedAfterBroadcast ==
    \A id \in DOMAIN events :
        /\ IsSome(events[id].announcement_event_id)
            => Unwrap(events[id].announcement_event_id) \in published
        /\ IsSome(events[id].attestation_event_id)
            => Unwrap(events[id].attestation_event_id) \in published

\* C32, the attestation alone
C32_AttestationAttachedAfterBroadcast ==
    \A id \in DOMAIN events :
        IsSome(events[id].attestation_event_id)
            => Unwrap(events[id].attestation_event_id) \in published

\* The state in which the stream last reported invoice i, if it did
ln_invoice_state(i) ==
    IF "state" \in DOMAIN invoices[i] THEN Some(invoices[i].state) ELSE None

\* What the service stores and what it has sent
Persistent ==
    <<jobs, zaps, balances, zapCredits, ledger, published, wasmRuns, active,
      events, event_nonces, event_jobs, current_index>>

\* C33: the consumer of the invoice stream spawns a settlement handler only
\* for an update in state Settled; an update in state Open, Accepted,
\* Canceled or in no known state spawns no handler and changes nothing the
\* service stores; and the consumer takes the next update whether or not
\* earlier handlers have finished.
C33_OnlySettledSpawns ==
    /\ [][/\ \A t \in DOMAIN invTasks :
               (invTasks[t].pc = "idle" /\ invTasks'[t].pc # "idle")
               => \E k \in DOMAIN invoices :
                    /\ InvoiceHash(k) = invTasks'[t].payment_hash
                    /\ ln_invoice_state(k)' = Some(1)
           /\ \A i \in DOMAIN invoices :
               (invoices'[i] # invoices[i] /\ ln_invoice_state(i)' # Some(1))
               => /\ invTasks' = invTasks
                  /\ Persistent' = Persistent]_vars
    /\ [](\A i \in DOMAIN invoices, state \in InvoiceStateCodes :
            (Inputs < MaxInputs /\ \E t \in DOMAIN invTasks : FreeSlot(invTasks, t))
            => ENABLED start_invoice_subscription(i, state))

\* C33 happens: two handlers are under way at once while another invoice
\* was last reported in a state other than Settled
C33_Witness ==
    /\ \A t \in DOMAIN invTasks : invTasks[t].pc \in {"job", "zap"}
    /\ \E i \in DOMAIN invoices :
        /\ ln_invoice_state(i) \notin {None, Some(1)}
        /\ \A t \in DOMAIN invTasks : invTasks[t].payment_hash # InvoiceHash(i)

\* min_sendable <= a <= max_sendable of the LNURL pay response, for a u64
\* kept as hi * 2^31 + lo: 11_000_000_000 = 5 * 2^31 + 262_581_760
Sendable(a) ==
    /\ a.hi > 0 \/ a.lo >= 1000
    /\ a.hi < 5 \/ (a.hi = 5 /\ a.lo <= 262581760)

\* The i32 n has the value of the u64 a
SameValue(n, a) == a.hi = 0 /\ a.lo = n

\* C34: for every zap amount a with 1000 <= a <= 11,000,000,000 msats the
\* stored Zap.amount_msats equals a, and the step that settles the zap
\* raises the balance of the recipient by exactly a, without 32-bit
\* wrap-around or saturation.
C34_ZapAmountExact ==
    /\ [](\A z \in zaps : \A i \in DOMAIN invoices :
            (z.payment_hash = InvoiceHash(i) /\ Sendable(invoices[i].value_msat))
            => SameValue(z.amount_msats, invoices[i].value_msat))
    /\ [][\A z \in zaps : \A i \in DOMAIN invoices :
            (/\ z.payment_hash = InvoiceHash(i)
             /\ Sendable(invoices[i].value_msat)
             /\ z.note_id = None
             /\ \E t \in DOMAIN invTasks :
                    /\ invTasks[t].pc = "zap"
                    /\ invTasks[t].payment_hash = z.payment_hash
                    /\ invTasks'[t].pc # "zap")
            => /\ IsSome(balances'[z.npub])
               /\ SameValue(Unwrap(balances'[z.npub]) - Unwrap(balances[z.npub]),
                            invoices[i].value_msat)]_vars

\* The u64 v is time * price: it is below 2^32 and agrees with the product
\* modulo three primes whose product is above 2^32
IsProduct(v, time, price) ==
    /\ v.hi \in {0, 1}
    /\ v.lo \in 0..I32_MAX
    /\ \A m \in {46337, 46327, 46309} :
        (((v.hi * ((I32_MAX % m) + 1)) % m) + (v.lo % m)) % m
            = ((time % m) * (price % m)) % m

\* C35: for every params.time <= 600000 and every whole price, value_msat
\* is time * price, the invoice is issued for exactly value_msat, and on the
\* balance path exactly value_msat is taken off the balance: value_msat as
\* i32 has the value and the sign of value_msat.
C35_PriceExact ==
    runner.pc \in {"deduct", "deducted", "invoice", "invoiced"} =>
        /\ IsProduct(runner.value_msat, runner.time, runner.price)
        /\ runner.pc = "invoiced" =>
            /\ runner.invoice_value_msat = [negative |-> FALSE,
                                            magnitude |-> runner.value_msat]
            /\ runner.amount = runner.value_msat
        /\ runner.pc = "deducted" =>
            /\ SameValue(runner.amt, runner.value_msat)
            /\ runner.new_balance = Some(runner.balance_msats - runner.amt)

\* C35 happens: the longest job at the highest price below i32::MAX is paid
\* from a balance of i32::MAX
C35_Witness ==
    /\ runner.pc = "deducted"
    /\ runner.time = MAX_JOB_TIME
    /\ runner.price = 3579
    /\ runner.amt = 2147400000
    /\ runner.new_balance = Some(83647)

\* C36: each top-level loop is started again after it ends or fails: when
\* listen_for_jobs or start_invoice_subscription has returned or has hit an
\* error, an error of the invoice stream included, the service is
\* eventually listening again.
C36_LoopsRestart ==
    /\ (runner.pc = "main" /\ ~Listening("listen_for_jobs"))
            ~> Listening("listen_for_jobs")
    /\ (runner.pc = "main" /\ ~Listening("start_invoice_subscription"))
            ~> Listening("start_invoice_subscription")

\* C36 for the loops that have returned Ok or Err
C36_ReturnedLoopsRestart ==
    /\ Stopped("listen_for_jobs") ~> Listening("listen_for_jobs")
    /\ Stopped("start_invoice_subscription")
            ~> Listening("start_invoice_subscription")

\* C37: every lease is released in the end: a job id that a scheduler round
\* added to the active set is removed again on every outcome of
\* run_scheduled_job, also when sending the reply fails.
C37_LeaseEventuallyReleased ==
    \A j \in 1..MaxInputs : (j \in active) ~> (j \notin active)

\* C37 as a state property: every id in the active set has a task that is
\* still to remove it
C37_LeaseHasTask ==
    \A j \in active :
        \E task \in schedTasks : task.job = j /\ task.pc \in {"run", "sent"}

\* C38: a deduction is never left without a job: when handle_event has
\* taken value_msat off the balance of the author and has finished, a jobs
\* row for that request exists (or the balance is what it was), also when
\* the run_date of the schedule is not in the future.
C38_DebitHasJob ==
    [][\A t \in DOMAIN evTasks :
        (/\ evTasks[t].pc = "deduct"
         /\ evTasks'[t].pc \in {"done", "failed"}
         /\ balances'[evTasks[t].request.pubkey]
                # balances[evTasks[t].request.pubkey])
        => \E j \in DOMAIN jobs' : jobs'[j].request = evTasks[t].request]_vars

\* Decrypted inputs an encrypted request can carry
EncryptedInputs ==
    {[time |-> t,
      schedule |-> Some([run_date |-> 1, expected_outputs |-> Some({o})])] :
        t \in {1, 2}, o \in Outputs}

\* The request with another decrypted input and all else the same
with_input(event, input) ==
    [event EXCEPT !.time = input.time, !.schedule = input.schedule]

\* What a request event shows in the clear: all of it when it is not
\* encrypted, else its author, its id and its p and encrypted tags
public_request(event) ==
    IF event.encrypted
    THEN [pubkey |-> event.pubkey, id |-> event.id, p_tags |-> event.p_tags,
          encrypted |-> TRUE]
    ELSE event

\* The tags of a JobResult as a reader of the relay sees them
cleartext_tags(reply) ==
    [p |-> reply.ref[2].pubkey, e |-> reply.ref[2].id, i |-> reply.i,
     request |-> public_request(reply.ref[2]), encrypted |-> reply.encrypted]

\* C39: no reply to an encrypted request shows the decrypted parameters in
\* the clear: the tags of a published reply to an encrypted request are the
\* tags the reply would have had if the request had differed in its
\* decrypted input only.
C39_RepliesHideInput ==
    \A reply \in published :
        (reply.kind = "JobResult" /\ reply.encrypted) =>
            \A input \in EncryptedInputs : \A outcome \in WasmOutcomes :
                outcome.ok =>
                    cleartext_tags(run_job_request(
                        with_input(reply.ref[2], input), outcome))
                    = cleartext_tags(reply)

\* C40: no handler waits for a second connection of the pool while it
\* holds one, so that with a pool of N connections and N handlers of
\* scheduled requests with expected outputs every handler can go on.
C40_NoWaitWhileHolding ==
    \A c \in DOMAIN calls :
        ~(calls[c].held > 0 /\ AtGet(c) /\ IdleConnections = 0)

\* C40, the deadlock: while a handler is unfinished, some handler can take
\* a step that is not the timeout of Pool::get
C40_SomeHandlerCanGoOn ==
    (\E c \in DOMAIN calls : calls[c].pc \notin {"done", "failed"})
    => \E c \in DOMAIN calls :
        \/ AtGet(c) /\ IdleConnections > 0
        \/ calls[c].pc \in {"transaction", "update"}

====
